---- MODULE Spec2Model ----
(***************************************************************************)
(* A model of simple-redis: the RESP frame codec (the hand-rolled decoder  *)
(* of src/resp and the parser-combinator decoder of src/respv2), the       *)
(* command executors of src/cmd and the shared Backend of src/backend.     *)
(*                                                                         *)
(* Bytes are one-character strings, buffers are sequences of bytes.        *)
(* A Frame is a record of one fixed shape:                                 *)
(*   tag   the variant                                                     *)
(*   some  FALSE only for BulkString(None)                                 *)
(*   s     the text / byte payload                                         *)
(*   n     the integer payload; for Double the signed decimal mantissa     *)
(*   e     for Double the decimal exponent (value = n * 10^e)              *)
(*   items the elements of an Array or Set                                 *)
(*   m     the entries of a Map, a function from key to Frame              *)
(***************************************************************************)
EXTENDS Integers, Sequences, FiniteSets, TLC

VARIABLES
    mode,      \* which part of the program the behaviour exercises: "codec", "raw", "server"
    sent,      \* codec: the Frame whose encoding is being delivered
    enc,       \* codec: encode(sent), the bytes on the wire
    fed,       \* codec: how many bytes of enc have been delivered
    chunks,    \* codec: how many chunks they were delivered in (2 stands for "two or more")
    in1,       \* the buffer handed to the last RespDecode::decode attempt (hand-rolled)
    in2,       \* the buffer handed to the last RespDecodeV2::decode attempt (winnow)
    out1,      \* the result of that RespDecode attempt; out1.rest is the buffer it left
    out2,      \* the result of that RespDecodeV2 attempt; out2.rest is the buffer it left
    arcs,      \* server: the BackInner instances on the heap, by address
    handle,    \* server: the address each connection task's Backend handle points to
    pc,        \* server: where each connection task is in its current command
    cmd,       \* server: the Command each task is executing
    ret,       \* server: HMGet's `ret` vector built so far
    resp,      \* server: the response Frame of the command that just finished
    lastSet,   \* history: the value given to the most recent Set, per key
    lastHSet,  \* history: the value given to the most recent HSet, per (key, field)
    seen,      \* history: the store states held while each task's command was in flight
    overlap,   \* history: the tasks whose command was executing while this task's was
    issued,    \* server: how many commands have been started
    req,       \* conversion: the request Frame handed to Command::try_from
    conv,      \* conversion: the Result of Command::try_from(req)
    reply,     \* conversion: the response of executing the converted Command
    strategy,  \* connection: the decode strategy the build uses, "v1" or "v2"
    requests,  \* connection: the request Frames the client sends, in order
    wire,      \* connection: their encodings, concatenated
    arrived,   \* connection: how many bytes of wire the socket has delivered
    reads,     \* connection: how many reads delivered them
    buffer,    \* connection: the read buffer of the connection
    loop,      \* connection: "read" (waiting for bytes), "decode" or "faulted"
    last,      \* connection: the result of the last decode attempt
    executed,  \* connection: the Commands executed so far, in order
    written,   \* connection: the response Frames written so far, in order
    store      \* connection: the BackInner the connection's Backend points to

vars == <<mode, sent, enc, fed, chunks, in1, in2, out1, out2,
          arcs, handle, pc, cmd, ret, resp, lastSet, lastHSet, seen, overlap, issued,
          req, conv, reply,
          strategy, requests, wire, arrived, reads, buffer, loop, last, executed, written, store>>

codecVars == <<sent, enc, fed, chunks, in1, in2, out1, out2>>
cmdVars == <<req, conv, reply>>
connVars ==
    <<strategy, requests, wire, arrived, reads, buffer, loop, last, executed, written, store>>
serverVars ==
    <<arcs, handle, pc, cmd, ret, resp, lastSet, lastHSet, seen, overlap, issued>>

-----------------------------------------------------------------------------
(* Bytes and decimal text                                                  *)

CR == "\r"
LF == "\n"
CRLF == <<CR, LF>>
CRLF_LEN == Len(CRLF)

Digits == <<"0", "1", "2", "3", "4", "5", "6", "7", "8", "9">>
DigitSet == {Digits[i] : i \in 1..10}
DigitVal(c) == (CHOOSE i \in 1..10 : Digits[i] = c) - 1

IsDigits(s) == Len(s) > 0 /\ \A i \in 1..Len(s) : s[i] \in DigitSet

RECURSIVE DigitsVal(_)
DigitsVal(s) ==
    IF Len(s) = 0 THEN 0
    ELSE 10 * DigitsVal(SubSeq(s, 1, Len(s) - 1)) + DigitVal(s[Len(s)])

RECURSIVE NatToBytes(_)
NatToBytes(n) ==
    IF n < 10 THEN <<Digits[n + 1]>>
    ELSE NatToBytes(n \div 10) \o <<Digits[(n % 10) + 1]>>

Abs(n) == IF n < 0 THEN -n ELSE n

\* Display of a signed integer: a '-' for negatives, no sign otherwise.
IntToBytes(n) == IF n < 0 THEN <<"-">> \o NatToBytes(-n) ELSE NatToBytes(n)

Drop(s, k) == SubSeq(s, k + 1, Len(s))
Take(s, k) == SubSeq(s, 1, k)
StartsWith(s, p) == Len(s) >= Len(p) /\ SubSeq(s, 1, Len(p)) = p

RECURSIVE Zeros(_)
Zeros(k) == IF k <= 0 THEN << >> ELSE <<"0">> \o Zeros(k - 1)

\* str::parse::<usize>: an optional '+', then one or more digits.
ParseUsize(s) ==
    LET d == IF Len(s) > 0 /\ s[1] = "+" THEN Drop(s, 1) ELSE s
    IN  IF IsDigits(d) THEN [ok |-> TRUE, v |-> DigitsVal(d)]
        ELSE [ok |-> FALSE, v |-> 0]

\* str::parse::<i64>: an optional '+' or '-', then one or more digits.
ParseI64(s) ==
    LET neg == Len(s) > 0 /\ s[1] = "-"
        d == IF Len(s) > 0 /\ s[1] \in {"+", "-"} THEN Drop(s, 1) ELSE s
    IN  IF IsDigits(d)
        THEN [ok |-> TRUE, v |-> IF neg THEN -DigitsVal(d) ELSE DigitsVal(d)]
        ELSE [ok |-> FALSE, v |-> 0]

-----------------------------------------------------------------------------
(* Frames                                                                  *)

EmptyMap == << >>

Fr(tag, some, s, n, e, items, m) ==
    [tag |-> tag, some |-> some, s |-> s, n |-> n, e |-> e, items |-> items, m |-> m]

NoFrame == Fr("none", TRUE, << >>, 0, 0, << >>, EmptyMap)

SimpleString(s) == Fr("SimpleString", TRUE, s, 0, 0, << >>, EmptyMap)
SimpleError(s) == Fr("Error", TRUE, s, 0, 0, << >>, EmptyMap)
Integer(n) == Fr("Integer", TRUE, << >>, n, 0, << >>, EmptyMap)
BulkString(s) == Fr("BulkString", TRUE, s, 0, 0, << >>, EmptyMap)
BulkStringNull == Fr("BulkString", FALSE, << >>, 0, 0, << >>, EmptyMap)
RespNullBulkString == Fr("NullBulkString", TRUE, << >>, 0, 0, << >>, EmptyMap)
RespArray(items) == Fr("Array", TRUE, << >>, 0, 0, items, EmptyMap)
RespNullArray == Fr("NullArray", TRUE, << >>, 0, 0, << >>, EmptyMap)
RespNull == Fr("Null", TRUE, << >>, 0, 0, << >>, EmptyMap)
Boolean(b) == Fr("Boolean", TRUE, << >>, IF b THEN 1 ELSE 0, 0, << >>, EmptyMap)
Double(n, e) == Fr("Double", TRUE, << >>, n, e, << >>, EmptyMap)
RespMap(m) == Fr("Map", TRUE, << >>, 0, 0, << >>, m)
RespSet(items) == Fr("Set", TRUE, << >>, 0, 0, items, EmptyMap)

\* HashMap::insert: the later value replaces the earlier one under the same key.
MapInsert(m, k, v) == [x \in (DOMAIN m) \cup {k} |-> IF x = k THEN v ELSE m[x]]

-----------------------------------------------------------------------------
(* Encoding: impl RespEncode for each frame type                           *)

\* A Double n * 10^e is kept canonical: n = 0 /\ e = 0, or 10 does not divide n.
RECURSIVE Canon(_, _)
Canon(n, e) ==
    IF n = 0 THEN [n |-> 0, e |-> 0]
    ELSE IF n % 10 = 0 THEN Canon(n \div 10, e + 1)
    ELSE [n |-> n, e |-> e]

\* The exponent of the leading digit: |n * 10^e| is in [10^SciExp, 10^(SciExp+1)).
SciExp(n, e) == Len(NatToBytes(Abs(n))) - 1 + e

\* f64 comparisons of double.rs:12 on the decimal value.
AbsGreaterThan1e8(n, e) == n # 0 /\ (SciExp(n, e) > 8 \/ (SciExp(n, e) = 8 /\ Abs(n) # 1))
AbsLessThan1em8(n, e) == n = 0 \/ SciExp(n, e) < -8

\* format!("{}", f64): fixed decimal, shortest digits, '-' for negatives.
FmtDisplay(n, e) ==
    LET D == NatToBytes(Abs(n))
        L == Len(D)
        p == L + e
        body == IF e >= 0 THEN D \o Zeros(e)
                ELSE IF p > 0 THEN Take(D, p) \o <<".">> \o Drop(D, p)
                ELSE <<"0", ".">> \o Zeros(-p) \o D
    IN  (IF n < 0 THEN <<"-">> ELSE << >>) \o body

\* format!("{:+e}", f64): d[.ddd]e<exp> with the sign always written.
FmtLowerExpPlus(n, e) ==
    LET D == NatToBytes(Abs(n))
        L == Len(D)
    IN  (IF n < 0 THEN <<"-">> ELSE <<"+">>)
        \o <<D[1]>>
        \o (IF L > 1 THEN <<".">> \o Drop(D, 1) ELSE << >>)
        \o <<"e">>
        \o IntToBytes(IF n = 0 THEN 0 ELSE SciExp(n, e))

f64_encode(f) ==
    IF AbsGreaterThan1e8(f.n, f.e) \/ AbsLessThan1em8(f.n, f.e)
    THEN <<",">> \o FmtLowerExpPlus(f.n, f.e) \o CRLF
    ELSE <<",">> \o (IF f.n < 0 THEN << >> ELSE <<"+">>) \o FmtDisplay(f.n, f.e) \o CRLF

SimpleString_encode(f) == <<"+">> \o f.s \o CRLF

SimpleError_encode(f) == <<"-">> \o f.s \o CRLF

i64_encode(f) == <<":">> \o (IF f.n < 0 THEN << >> ELSE <<"+">>) \o IntToBytes(f.n) \o CRLF

BulkString_encode(f) ==
    IF ~f.some THEN <<"$", "-", "1">> \o CRLF
    ELSE <<"$">> \o NatToBytes(Len(f.s)) \o CRLF \o f.s \o CRLF

RespNullBulkString_encode(f) == <<"$", "-", "1">> \o CRLF

RespNullArray_encode(f) == <<"*", "-", "1">> \o CRLF

RespNull_encode(f) == <<"_">> \o CRLF

bool_encode(f) == <<"#">> \o (IF f.n = 1 THEN <<"t">> ELSE <<"f">>) \o CRLF

\* The order in which a HashMap hands out its entries is not fixed by its
\* contents: `ord` lists the keys in the order this iteration happens to use.
MapIterOrder(m, ord) == SelectSeq(ord, LAMBDA k : k \in DOMAIN m)

RECURSIVE Encode(_, _)
RECURSIVE EncodeAll(_, _)
RECURSIVE EncodeEntries(_, _, _)

EncodeAll(items, ord) ==
    IF Len(items) = 0 THEN << >>
    ELSE Encode(Head(items), ord) \o EncodeAll(Tail(items), ord)

EncodeEntries(m, keys, ord) ==
    IF Len(keys) = 0 THEN << >>
    ELSE SimpleString_encode(SimpleString(Head(keys)))
         \o Encode(m[Head(keys)], ord)
         \o EncodeEntries(m, Tail(keys), ord)

RespArray_encode(f, ord) ==
    <<"*">> \o NatToBytes(Len(f.items)) \o CRLF \o EncodeAll(f.items, ord)

RespSet_encode(f, ord) ==
    <<"~">> \o NatToBytes(Len(f.items)) \o CRLF \o EncodeAll(f.items, ord)

RespMap_encode(f, ord) ==
    <<"%">> \o NatToBytes(Cardinality(DOMAIN f.m)) \o CRLF
    \o EncodeEntries(f.m, MapIterOrder(f.m, ord), ord)

\* RespFrame::encode: enum_dispatch to the variant's encode.
Encode(f, ord) ==
    CASE f.tag = "SimpleString" -> SimpleString_encode(f)
      [] f.tag = "Error" -> SimpleError_encode(f)
      [] f.tag = "Integer" -> i64_encode(f)
      [] f.tag = "BulkString" -> BulkString_encode(f)
      [] f.tag = "NullBulkString" -> RespNullBulkString_encode(f)
      [] f.tag = "Array" -> RespArray_encode(f, ord)
      [] f.tag = "NullArray" -> RespNullArray_encode(f)
      [] f.tag = "Null" -> RespNull_encode(f)
      [] f.tag = "Boolean" -> bool_encode(f)
      [] f.tag = "Double" -> f64_encode(f)
      [] f.tag = "Map" -> RespMap_encode(f, ord)
      [] f.tag = "Set" -> RespSet_encode(f, ord)


-----------------------------------------------------------------------------
(* Results.  kind is "Ok", "Panic" (the task crashes), or the name of the  *)
(* RespError variant returned.                                             *)

\* A decode result: the frame (when Ok) and the buffer as the call leaves it.
R(kind, frame, rest) == [kind |-> kind, frame |-> frame, rest |-> rest]
\* A length result.
RL(kind, len) == [kind |-> kind, len |-> len]

Min(S) == CHOOSE x \in S : \A y \in S : x <= y

-----------------------------------------------------------------------------
(* The hand-rolled decoder: src/resp                                       *)

\* Index (from 0) of the '\r' ending the first line; NotComplete without one.
extract_simaple_frame_data(buf, prefix) ==
    IF Len(buf) < 3 THEN [kind |-> "NotComplete", end |-> 0]
    ELSE IF buf[1] # prefix THEN [kind |-> "InvalidFrameType", end |-> 0]
    ELSE LET hits == {i \in 0..(Len(buf) - 2) : buf[i + 1] = CR /\ buf[i + 2] = LF}
             end == IF hits = {} THEN 0 ELSE Min(hits)
         IN  IF end = 0 THEN [kind |-> "NotComplete", end |-> 0]
             ELSE [kind |-> "Ok", end |-> end]

\* Consumes `expect` from the front of the buffer when the buffer starts with it.
extract_fixed_data(buf, expect) ==
    IF Len(buf) < 3 THEN R("NotComplete", NoFrame, buf)
    ELSE IF ~StartsWith(buf, expect) THEN R("InvalidFrameType", NoFrame, buf)
    ELSE R("Ok", NoFrame, Drop(buf, Len(expect)))

parse_length(buf, prefix) ==
    LET x == extract_simaple_frame_data(buf, prefix)
        p == ParseUsize(SubSeq(buf, 2, x.end))
    IN  IF x.kind # "Ok" THEN [kind |-> x.kind, end |-> 0, len |-> 0]
        ELSE IF ~p.ok THEN [kind |-> "ParseIntError", end |-> 0, len |-> 0]
        ELSE [kind |-> "Ok", end |-> x.end, len |-> p.v]

RECURSIVE RespFrame_expect_length(_)
RECURSIVE calc_elements(_, _, _)

\* The loop body of calc_total_length, k more frames to go: `&data[len..]`
\* panics when the probed length exceeds what the slice holds.
calc_elements(data, k, total) ==
    IF k = 0 THEN RL("Ok", total)
    ELSE LET x == RespFrame_expect_length(data)
         IN  IF x.kind # "Ok" THEN RL(x.kind, 0)
             ELSE IF x.len > Len(data) THEN RL("Panic", 0)
             ELSE calc_elements(Drop(data, x.len), k - 1, total + x.len)

calc_total_length(buf, end, len, prefix) ==
    LET total == end + CRLF_LEN
        data == Drop(buf, total)
    IN  CASE prefix \in {"*", "~"} -> calc_elements(data, len, total)
          [] prefix = "%" -> calc_elements(data, 2 * len, total)
          [] OTHER -> RL("Ok", len + CRLF_LEN)

\* expect_length of SimpleString, SimpleError, f64 (and i64): up to the first CRLF.
Simple_expect_length(buf, prefix) ==
    LET x == extract_simaple_frame_data(buf, prefix)
    IN  IF x.kind # "Ok" THEN RL(x.kind, 0) ELSE RL("Ok", x.end + CRLF_LEN)

BulkString_expect_length(buf) ==
    LET x == parse_length(buf, "$")
    IN  IF x.kind # "Ok" THEN RL(x.kind, 0)
        ELSE RL("Ok", x.end + CRLF_LEN + x.len + CRLF_LEN)

\* expect_length of RespArray, RespSet and RespMap.
Aggregate_expect_length(buf, prefix) ==
    LET x == parse_length(buf, prefix)
    IN  IF x.kind # "Ok" THEN RL(x.kind, 0)
        ELSE calc_total_length(buf, x.end, x.len, prefix)

bool_expect_length(buf) == RL("Ok", 4)

RespNull_expect_length(buf) == RL("Ok", 3)

\* RespFrame::expect_length: dispatch on the first byte.
RespFrame_expect_length(buf) ==
    IF Len(buf) = 0 THEN RL("NotComplete", 0)
    ELSE CASE buf[1] \in {"*", "~", "%"} -> Aggregate_expect_length(buf, buf[1])
           [] buf[1] = "$" -> BulkString_expect_length(buf)
           [] buf[1] \in {":", "+", "-", ","} -> Simple_expect_length(buf, buf[1])
           [] buf[1] = "#" -> bool_expect_length(buf)
           [] buf[1] = "_" -> RespNull_expect_length(buf)
           [] OTHER -> RL("NotComplete", 0)


\* str::parse::<f64> on [sign] digits [. digits] [e [sign] digits], at least one
\* mantissa digit; the value is returned as a canonical decimal n * 10^e.
ParseFloat(s) ==
    LET neg == Len(s) > 0 /\ s[1] = "-"
        body == IF Len(s) > 0 /\ s[1] \in {"+", "-"} THEN Drop(s, 1) ELSE s
        es == {i \in 1..Len(body) : body[i] \in {"e", "E"}}
        mant == IF es = {} THEN body ELSE Take(body, Min(es) - 1)
        ex == IF es = {} THEN [ok |-> TRUE, v |-> 0] ELSE ParseI64(Drop(body, Min(es)))
        dots == {i \in 1..Len(mant) : mant[i] = "."}
        ip == IF dots = {} THEN mant ELSE Take(mant, Min(dots) - 1)
        fp == IF dots = {} THEN << >> ELSE Drop(mant, Min(dots))
        digs == ip \o fp
        c == Canon(IF neg THEN -DigitsVal(digs) ELSE DigitsVal(digs), ex.v - Len(fp))
    IN  IF ex.ok /\ IsDigits(digs) THEN [ok |-> TRUE, n |-> c.n, e |-> c.e]
        ELSE [ok |-> FALSE, n |-> 0, e |-> 0]

SimpleString_decode(buf) ==
    LET x == extract_simaple_frame_data(buf, "+")
    IN  IF x.kind # "Ok" THEN R(x.kind, NoFrame, buf)
        ELSE R("Ok", SimpleString(SubSeq(buf, 2, x.end)), Drop(buf, x.end + 2))

SimpleError_decode(buf) ==
    LET x == extract_simaple_frame_data(buf, "-")
    IN  IF x.kind # "Ok" THEN R(x.kind, NoFrame, buf)
        ELSE R("Ok", SimpleError(SubSeq(buf, 2, x.end)), Drop(buf, x.end + 2))

i64_decode(buf) ==
    LET x == extract_simaple_frame_data(buf, ":")
        p == ParseI64(SubSeq(buf, 2, x.end))
    IN  IF x.kind # "Ok" THEN R(x.kind, NoFrame, buf)
        ELSE IF ~p.ok THEN R("ParseIntError", NoFrame, Drop(buf, x.end + CRLF_LEN))
        ELSE R("Ok", Integer(p.v), Drop(buf, x.end + CRLF_LEN))

f64_decode(buf) ==
    LET x == extract_simaple_frame_data(buf, ",")
        p == ParseFloat(SubSeq(buf, 2, x.end))
    IN  IF x.kind # "Ok" THEN R(x.kind, NoFrame, buf)
        ELSE IF ~p.ok THEN R("ParseFloatError", NoFrame, Drop(buf, x.end + CRLF_LEN))
        ELSE R("Ok", Double(p.n, p.e), Drop(buf, x.end + CRLF_LEN))

RespNull_decode(buf) ==
    LET x == extract_fixed_data(buf, <<"_">> \o CRLF)
    IN  IF x.kind # "Ok" THEN x ELSE R("Ok", RespNull, x.rest)

bool_decode(buf) ==
    LET t == extract_fixed_data(buf, <<"#", "t">> \o CRLF)
        f == extract_fixed_data(buf, <<"#", "f">> \o CRLF)
    IN  IF t.kind = "Ok" THEN R("Ok", Boolean(TRUE), t.rest)
        ELSE IF f.kind = "Ok" THEN R("Ok", Boolean(FALSE), f.rest)
        ELSE f

BulkString_decode(buf) ==
    LET x == parse_length(buf, "$")
        remained == Drop(buf, x.end + CRLF_LEN)
    IN  IF x.kind # "Ok" THEN R(x.kind, NoFrame, buf)
        ELSE IF Len(remained) < x.len + CRLF_LEN THEN R("NotComplete", NoFrame, buf)
        ELSE R("Ok", BulkString(Take(remained, x.len)), Drop(remained, x.len + CRLF_LEN))

RespNullBulkString_decode(buf) ==
    LET x == extract_fixed_data(buf, <<"$", "-", "1">> \o CRLF)
    IN  IF x.kind # "Ok" THEN x ELSE R("Ok", RespNullBulkString, x.rest)

RespNullArray_decode(buf) ==
    LET x == extract_fixed_data(buf, <<"*", "-", "1">> \o CRLF)
    IN  IF x.kind # "Ok" THEN x ELSE R("Ok", RespNullArray, x.rest)

RECURSIVE RespFrame_decode(_)
RECURSIVE decode_elements(_, _, _)
RECURSIVE decode_entries(_, _, _)

\* The loop of RespArray::decode / RespSet::decode: k more frames, pushed onto acc.
decode_elements(buf, k, acc) ==
    IF k = 0 THEN [kind |-> "Ok", items |-> acc, rest |-> buf]
    ELSE LET x == RespFrame_decode(buf)
         IN  IF x.kind # "Ok" THEN [kind |-> x.kind, items |-> acc, rest |-> x.rest]
             ELSE decode_elements(x.rest, k - 1, Append(acc, x.frame))

\* The loop of RespMap::decode: k more (SimpleString key, frame) entries.
decode_entries(buf, k, m) ==
    IF k = 0 THEN [kind |-> "Ok", m |-> m, rest |-> buf]
    ELSE LET key == SimpleString_decode(buf)
             value == RespFrame_decode(key.rest)
         IN  IF key.kind # "Ok" THEN [kind |-> key.kind, m |-> m, rest |-> key.rest]
             ELSE IF value.kind # "Ok"
             THEN [kind |-> value.kind, m |-> m, rest |-> value.rest]
             ELSE decode_entries(value.rest, k - 1, MapInsert(m, key.frame.s, value.frame))

RespArray_decode(buf) ==
    LET x == parse_length(buf, "*")
        total == calc_total_length(buf, x.end, x.len, "*")
        got == decode_elements(Drop(buf, x.end + CRLF_LEN), x.len, << >>)
    IN  IF x.kind # "Ok" THEN R(x.kind, NoFrame, buf)
        ELSE IF total.kind # "Ok" THEN R(total.kind, NoFrame, buf)
        ELSE IF Len(buf) < total.len THEN R("NotComplete", NoFrame, buf)
        ELSE IF got.kind # "Ok" THEN R(got.kind, NoFrame, got.rest)
        ELSE R("Ok", RespArray(got.items), got.rest)

RespSet_decode(buf) ==
    LET x == parse_length(buf, "~")
        total == calc_total_length(buf, x.end, x.len, "~")
        got == decode_elements(Drop(buf, x.end + CRLF_LEN), x.len, << >>)
    IN  IF x.kind # "Ok" THEN R(x.kind, NoFrame, buf)
        ELSE IF total.kind # "Ok" THEN R(total.kind, NoFrame, buf)
        ELSE IF Len(buf) < total.len THEN R("NotComplete", NoFrame, buf)
        ELSE IF got.kind # "Ok" THEN R(got.kind, NoFrame, got.rest)
        ELSE R("Ok", RespSet(got.items), got.rest)

RespMap_decode(buf) ==
    LET x == parse_length(buf, "%")
        total == calc_total_length(buf, x.end, x.len, "%")
        got == decode_entries(Drop(buf, x.end + CRLF_LEN), x.len, EmptyMap)
    IN  IF x.kind # "Ok" THEN R(x.kind, NoFrame, buf)
        ELSE IF total.kind # "Ok" THEN R(total.kind, NoFrame, buf)
        ELSE IF Len(buf) < total.len THEN R("NotComplete", NoFrame, buf)
        ELSE IF got.kind # "Ok" THEN R(got.kind, NoFrame, got.rest)
        ELSE R("Ok", RespMap(got.m), got.rest)

\* RespFrame::decode: dispatch on the first byte; for '$' and '*' the null
\* sentinel is tried first and anything but NotComplete falls through to the
\* length-prefixed decoder.
RespFrame_decode(buf) ==
    IF Len(buf) = 0 THEN R("NotComplete", NoFrame, buf)
    ELSE CASE buf[1] = "+" -> SimpleString_decode(buf)
           [] buf[1] = "-" -> SimpleError_decode(buf)
           [] buf[1] = ":" -> i64_decode(buf)
           [] buf[1] = "$" ->
                LET x == RespNullBulkString_decode(buf)
                IN  IF x.kind \in {"Ok", "NotComplete"} THEN x ELSE BulkString_decode(buf)
           [] buf[1] = "*" ->
                LET x == RespNullArray_decode(buf)
                IN  IF x.kind \in {"Ok", "NotComplete"} THEN x ELSE RespArray_decode(buf)
           [] buf[1] = "_" -> RespNull_decode(buf)
           [] buf[1] = "#" -> bool_decode(buf)
           [] buf[1] = "," -> f64_decode(buf)
           [] buf[1] = "%" -> RespMap_decode(buf)
           [] buf[1] = "~" -> RespSet_decode(buf)
           [] OTHER -> R("InvalidFrameType", NoFrame, buf)


-----------------------------------------------------------------------------
(* The parser-combinator decoder: src/respv2.  A parser takes the input    *)
(* slice and returns ok, the value and the rest of the slice.              *)

P(ok, v, rest) == [ok |-> ok, v |-> v, rest |-> rest]

\* terminated(take_until(0.., CRLF), CRLF): the line before the first CRLF.
take_line(input) ==
    LET hits == {i \in 1..(Len(input) - 1) : input[i] = CR /\ input[i + 1] = LF}
    IN  IF hits = {} THEN P(FALSE, << >>, input)
        ELSE P(TRUE, Take(input, Min(hits) - 1), Drop(input, Min(hits) + 1))

parse_string(input) == take_line(input)

\* opt(alt(('+', '-'))), then digit1.parse_to::<i64>(), then CRLF.
integer(input) ==
    LET signed == Len(input) > 0 /\ input[1] \in {"+", "-"}
        sign == IF signed /\ input[1] = "-" THEN -1 ELSE 1
        body == IF signed THEN Drop(input, 1) ELSE input
        nd == {i \in 1..Len(body) : body[i] \notin DigitSet}
        k == IF nd = {} THEN Len(body) ELSE Min(nd) - 1
        after == Drop(body, k)
    IN  IF k = 0 \/ ~StartsWith(after, CRLF) THEN P(FALSE, 0, input)
        ELSE P(TRUE, sign * DigitsVal(Take(body, k)), Drop(after, CRLF_LEN))

RECURSIVE parse_frame_len(_)
RECURSIVE frames_len(_, _)
RECURSIVE entries_len(_, _)

\* `for _ in 0..len { parse_frame_len(input)?; }`
frames_len(input, k) ==
    IF k = 0 THEN P(TRUE, 0, input)
    ELSE LET x == parse_frame_len(input)
         IN  IF ~x.ok THEN x ELSE frames_len(x.rest, k - 1)

\* The loop of map_len: a line for the key, then one frame.
entries_len(input, k) ==
    IF k = 0 THEN P(TRUE, 0, input)
    ELSE LET key == take_line(input)
             value == parse_frame_len(key.rest)
         IN  IF ~key.ok THEN P(FALSE, 0, input)
             ELSE IF ~value.ok THEN value
             ELSE entries_len(value.rest, k - 1)

bulk_string_len(input) ==
    LET x == integer(input)
    IN  IF ~x.ok THEN P(FALSE, 0, input)
        ELSE IF x.v = -1 \/ x.v = 0 THEN P(TRUE, 0, x.rest)
        ELSE IF x.v < -1 THEN P(FALSE, 0, input)
        ELSE IF Len(x.rest) < x.v + 2 THEN P(FALSE, 0, input)
        ELSE P(TRUE, 0, Drop(x.rest, x.v + 2))

array_len(input) ==
    LET x == integer(input)
    IN  IF ~x.ok THEN P(FALSE, 0, input)
        ELSE IF x.v = 0 \/ x.v = -1 THEN P(TRUE, 0, x.rest)
        ELSE IF x.v < -1 THEN P(FALSE, 0, input)
        ELSE frames_len(x.rest, x.v)

map_len(input) ==
    LET x == integer(input)
    IN  IF ~x.ok THEN P(FALSE, 0, input)
        ELSE IF x.v <= 0 THEN P(FALSE, 0, input)
        ELSE entries_len(x.rest, x.v \div 2)

parse_frame_len(input) ==
    IF Len(input) = 0 THEN P(FALSE, 0, input)
    ELSE CASE input[1] \in {"+", "-", ":", "_", "#", ","} ->
                LET x == take_line(Tail(input)) IN P(x.ok, 0, x.rest)
           [] input[1] = "$" -> bulk_string_len(Tail(input))
           [] input[1] = "*" -> array_len(Tail(input))
           [] input[1] = "%" -> map_len(Tail(input))
           [] OTHER -> P(FALSE, 0, input)

\* Every parser error becomes NotComplete.
parse_frame_length(input) ==
    LET x == parse_frame_len(input)
    IN  IF x.ok THEN RL("Ok", Len(input) - Len(x.rest)) ELSE RL("NotComplete", 0)

simple_string(input) ==
    LET x == parse_string(input) IN P(x.ok, SimpleString(x.v), x.rest)

error(input) ==
    LET x == parse_string(input) IN P(x.ok, SimpleError(x.v), x.rest)

null_bulk_string(input) ==
    IF StartsWith(input, <<"-", "1">> \o CRLF)
    THEN P(TRUE, RespNullBulkString, Drop(input, 4)) ELSE P(FALSE, NoFrame, input)

bulk_string(input) ==
    LET x == integer(input)
        after == Drop(x.rest, x.v)
    IN  IF ~x.ok THEN P(FALSE, NoFrame, input)
        ELSE IF x.v = 0 THEN P(TRUE, BulkString(<< >>), x.rest)
        ELSE IF x.v < 0 THEN P(FALSE, NoFrame, input)
        ELSE IF Len(x.rest) < x.v \/ ~StartsWith(after, CRLF) THEN P(FALSE, NoFrame, input)
        ELSE P(TRUE, BulkString(Take(x.rest, x.v)), Drop(after, CRLF_LEN))

null_array(input) ==
    IF StartsWith(input, <<"-", "1">> \o CRLF)
    THEN P(TRUE, RespNullArray, Drop(input, 4)) ELSE P(FALSE, NoFrame, input)

boolean(input) ==
    IF Len(input) > 0 /\ input[1] \in {"t", "f"} /\ StartsWith(Tail(input), CRLF)
    THEN P(TRUE, Boolean(input[1] = "t"), Drop(input, 3))
    ELSE P(FALSE, NoFrame, input)

\* terminated(float, CRLF)
decimal(input) ==
    LET x == take_line(input)
        p == ParseFloat(x.v)
    IN  IF x.ok /\ p.ok THEN P(TRUE, Double(p.n, p.e), x.rest) ELSE P(FALSE, NoFrame, input)

null(input) ==
    IF StartsWith(input, CRLF) THEN P(TRUE, RespNull, Drop(input, CRLF_LEN))
    ELSE P(FALSE, NoFrame, input)

RECURSIVE parse_frame(_)
RECURSIVE parse_frames(_, _, _)
RECURSIVE parse_entries(_, _, _)

\* `for _ in 0..len { arr.push(parse_frame(input)?); }`
parse_frames(input, k, acc) ==
    IF k = 0 THEN P(TRUE, acc, input)
    ELSE LET x == parse_frame(input)
         IN  IF ~x.ok THEN P(FALSE, acc, input)
             ELSE parse_frames(x.rest, k - 1, Append(acc, x.v))

\* The loop of map: preceded('+', parse_string) for the key, then one frame.
parse_entries(input, k, m) ==
    IF k = 0 THEN P(TRUE, m, input)
    ELSE LET key == IF Len(input) > 0 /\ input[1] = "+" THEN parse_string(Tail(input))
                    ELSE P(FALSE, << >>, input)
             value == parse_frame(key.rest)
         IN  IF ~key.ok \/ ~value.ok THEN P(FALSE, m, input)
             ELSE parse_entries(value.rest, k - 1, MapInsert(m, key.v, value.v))

array(input) ==
    LET x == integer(input)
        got == parse_frames(x.rest, x.v, << >>)
    IN  IF ~x.ok THEN P(FALSE, NoFrame, input)
        ELSE IF x.v = 0 THEN P(TRUE, RespArray(<< >>), x.rest)
        ELSE IF x.v < 0 THEN P(FALSE, NoFrame, input)
        ELSE IF ~got.ok THEN P(FALSE, NoFrame, input)
        ELSE P(TRUE, RespArray(got.v), got.rest)

map(input) ==
    LET x == integer(input)
        got == parse_entries(x.rest, x.v \div 2, EmptyMap)
    IN  IF ~x.ok THEN P(FALSE, NoFrame, input)
        ELSE IF x.v <= 0 THEN P(FALSE, NoFrame, input)
        ELSE IF ~got.ok THEN P(FALSE, NoFrame, input)
        ELSE P(TRUE, RespMap(got.v), got.rest)

parse_frame(input) ==
    IF Len(input) = 0 THEN P(FALSE, NoFrame, input)
    ELSE LET in == Tail(input)
         IN  CASE input[1] = "+" -> simple_string(in)
               [] input[1] = "-" -> error(in)
               [] input[1] = ":" ->
                    LET x == integer(in) IN P(x.ok, IF x.ok THEN Integer(x.v) ELSE NoFrame, x.rest)
               [] input[1] = "$" ->
                    LET x == null_bulk_string(in) IN IF x.ok THEN x ELSE bulk_string(in)
               [] input[1] = "*" ->
                    LET x == null_array(in) IN IF x.ok THEN x ELSE array(in)
               [] input[1] = "_" -> null(in)
               [] input[1] = "#" -> boolean(in)
               [] input[1] = "," -> decimal(in)
               [] input[1] = "%" -> map(in)
               [] OTHER -> P(FALSE, NoFrame, input)

\* RespDecodeV2::expect_length for RespFrame
RespFrameV2_expect_length(buf) == parse_frame_length(buf)

\* RespDecodeV2::decode for RespFrame: probe, split the probed bytes off the
\* buffer, parse that slice.
RespFrameV2_decode(buf) ==
    LET len == RespFrameV2_expect_length(buf)
        x == parse_frame(Take(buf, len.len))
    IN  IF len.kind # "Ok" THEN R(len.kind, NoFrame, buf)
        ELSE IF ~x.ok THEN R("InvalidFrame", NoFrame, Drop(buf, len.len))
        ELSE R("Ok", x.v, Drop(buf, len.len))


-----------------------------------------------------------------------------
(* The frames and bytes the codec is exercised on                          *)

MaxElems == 2     \* elements of an Array or Set, entries of a Map
MaxRaw == 4       \* pieces of a raw input buffer

MapKeys == {<<"a">>, <<"b">>}
KeyOrders == {<< <<"a">>, <<"b">> >>, << <<"b">>, <<"a">> >>}

LeafFrames ==
    { SimpleString(<<"O", "K">>), SimpleString(<< >>), SimpleError(<<"E">>),
      Integer(0), Integer(-7), Integer(12),
      BulkString(<< >>), BulkString(<<"a", "b">>), BulkStringNull,
      RespNullBulkString, RespNullArray, RespNull,
      Boolean(TRUE), Boolean(FALSE),
      Double(15, -1), Double(-2, 9), Double(0, 0), Double(1, 8), Double(-1, -9) }

ElemFrames ==
    { SimpleString(<<"O", "K">>), Integer(12), BulkString(<<"a", "b">>), BulkString(<< >>),
      Boolean(TRUE), RespNull,
      RespArray(<<Integer(12)>>), RespSet(<<Boolean(FALSE)>>) }

SeqsUpTo(S, k) == UNION {[1..j -> S] : j \in 0..k}

MapsOver(S) == UNION {[K -> S] : K \in {K \in SUBSET MapKeys : Cardinality(K) <= MaxElems}}

Frames ==
    LeafFrames
    \cup {RespArray(x) : x \in SeqsUpTo(ElemFrames, MaxElems)}
    \cup {RespSet(x) : x \in SeqsUpTo(ElemFrames, MaxElems)}
    \cup {RespMap(x) : x \in MapsOver(ElemFrames)}

\* What the network can put into a buffer in one piece, for raw inputs.
\* One key/value pair of a Map on the wire: the key "k" and the value Null.
PairPiece == <<"+", "k", CR, LF, "_", CR, LF>>

RawPieces ==
    {<<b>> : b \in {"+", "-", "$", "*", "%", "~", "#", "_", "0", "1", "2", "t", "x", CR, LF}}
    \cup {CRLF, PairPiece}

NoResult == R("none", NoFrame, << >>)

\* The class of an outcome, as the connection loop tells them apart.
Class(out) ==
    CASE out.kind = "Ok" -> "frame"
      [] out.kind = "NotComplete" -> "incomplete"
      [] out.kind = "Panic" -> "crash"
      [] out.kind = "none" -> "none"
      [] OTHER -> "malformed"

CmdIdle == req = NoFrame /\ conv = << >> /\ reply = NoFrame

ConnIdle ==
    /\ strategy = "none" /\ requests = << >> /\ wire = << >> /\ arrived = 0 /\ reads = 0
    /\ buffer = << >> /\ loop = "none" /\ last = NoResult
    /\ executed = << >> /\ written = << >> /\ store = << >>

ServerIdle ==
    /\ arcs = << >> /\ handle = << >> /\ pc = << >> /\ cmd = << >> /\ ret = << >>
    /\ resp = << >> /\ lastSet = << >> /\ lastHSet = << >> /\ seen = << >> /\ overlap = << >>
    /\ issued = 0

-----------------------------------------------------------------------------
(* Codec: one encoded frame arrives in chunks; after each chunk both       *)
(* decoders are called on their connection buffer.                         *)

InitCodec ==
    /\ mode = "codec"
    /\ sent \in Frames
    /\ enc \in {Encode(sent, ord) : ord \in KeyOrders}
    /\ fed = 0 /\ chunks = 0
    /\ in1 = << >> /\ in2 = << >>
    /\ out1 = NoResult /\ out2 = NoResult
    /\ ServerIdle
    /\ CmdIdle
    /\ ConnIdle

\* stream.read appends n more bytes to the buffer, then decode is attempted.
Deliver(n) ==
    /\ mode = "codec"
    /\ fed + n <= Len(enc)
    /\ LET chunk == SubSeq(enc, fed + 1, fed + n)
       IN  /\ in1' = out1.rest \o chunk
           /\ in2' = out2.rest \o chunk
    /\ out1' = RespFrame_decode(in1')
    /\ out2' = RespFrameV2_decode(in2')
    /\ fed' = fed + n
    /\ chunks' = IF chunks = 0 THEN 1 ELSE 2
    /\ UNCHANGED <<mode, sent, enc>>
    /\ UNCHANGED <<serverVars, cmdVars, connVars>>

NextCodec == \E n \in 1..Len(enc) : Deliver(n)

SpecCodec == InitCodec /\ [][NextCodec]_vars

-----------------------------------------------------------------------------
(* Raw: arbitrary bytes; both decoders are called on the same buffer.      *)

InitRaw ==
    /\ mode = "raw"
    /\ sent = NoFrame /\ enc = << >> /\ fed = 0 /\ chunks = 0
    /\ in1 = << >> /\ in2 = << >>
    /\ out1 = NoResult /\ out2 = NoResult
    /\ ServerIdle
    /\ CmdIdle
    /\ ConnIdle

\* The buffer one piece longer is handed to each decoder.
Probe(piece) ==
    /\ mode = "raw"
    /\ chunks < MaxRaw
    /\ in1' = in1 \o piece
    /\ in2' = in2 \o piece
    /\ out1' = RespFrame_decode(in1')
    /\ out2' = RespFrameV2_decode(in2')
    /\ chunks' = chunks + 1
    /\ UNCHANGED <<mode, sent, enc, fed>>
    /\ UNCHANGED <<serverVars, cmdVars, connVars>>

NextRaw == \E piece \in RawPieces : Probe(piece)

SpecRaw == InitRaw /\ [][NextRaw]_vars


-----------------------------------------------------------------------------
(* The Backend: src/backend/mod.rs.  A DashMap is a function whose domain  *)
(* is the set of keys it holds; each DashMap call is one atomic step.      *)

None == [some |-> FALSE, v |-> NoFrame]
Some(v) == [some |-> TRUE, v |-> v]

\* BackInner::new
BackInner_new == [map |-> EmptyMap, hmap |-> EmptyMap]

\* A clone that copies the BackInner instead of sharing it (what deriving Clone
\* gives without the Arc): the new handle points to a fresh copy.
Backend_clone_deep(heap, h) == [heap |-> Append(heap, heap[h]), h |-> Len(heap) + 1]

\* Backend::clone (derived on Backend(Arc<BackInner>)): the new handle points to
\* the same BackInner; the heap is left as it is.
Backend_clone(heap, h) == [heap |-> heap, h |-> h]

\* Backend::get
Backend_get(b, key) ==
    IF key \in DOMAIN b.map THEN Some(b.map[key]) ELSE None

\* A set that keeps the value already stored under the key.
Backend_set_keep_first(b, key, value) ==
    IF key \in DOMAIN b.map THEN b ELSE [b EXCEPT !.map = MapInsert(b.map, key, value)]

\* A set that writes the whole map back from a copy that holds only this key
\* (a lost update on every other key).
Backend_set_replace_all(b, key, value) ==
    [b EXCEPT !.map = MapInsert(EmptyMap, key, value)]

\* Backend::set
Backend_set(b, key, value) == [b EXCEPT !.map = MapInsert(b.map, key, value)]

\* Backend::hget
Backend_hget(b, key, field) ==
    IF key \in DOMAIN b.hmap /\ field \in DOMAIN b.hmap[key]
    THEN Some(b.hmap[key][field]) ELSE None

\* An hset that uses get_mut(key) instead of entry(key).or_default(): nothing
\* is stored when the key has no inner map yet.
Backend_hset_no_create(b, key, field, value) ==
    IF key \in DOMAIN b.hmap
    THEN [b EXCEPT !.hmap = MapInsert(b.hmap, key, MapInsert(b.hmap[key], field, value))]
    ELSE b

\* An hset that stores a new inner map holding only the written field, as
\* `hmap.insert(key, inner)` with a fresh inner would: the fields other writers
\* stored under the key are discarded.
Backend_hset_fresh_inner(b, key, field, value) ==
    [b EXCEPT !.hmap = MapInsert(b.hmap, key, MapInsert(EmptyMap, field, value))]

\* An hset on a store that keeps one namespace: the hash write also replaces
\* the flat value under the key.
Backend_hset_one_namespace(b, key, field, value) ==
    LET inner == IF key \in DOMAIN b.hmap THEN b.hmap[key] ELSE EmptyMap
    IN  [map |-> MapInsert(b.map, key, value),
         hmap |-> MapInsert(b.hmap, key, MapInsert(inner, field, value))]

\* Backend::hset: entry(key).or_default(), then insert into the inner map.
Backend_hset(b, key, field, value) ==
    LET inner == IF key \in DOMAIN b.hmap THEN b.hmap[key] ELSE EmptyMap
    IN  [b EXCEPT !.hmap = MapInsert(b.hmap, key, MapInsert(inner, field, value))]

-----------------------------------------------------------------------------
(* Commands and their executors: src/cmd                                   *)

RESP_OK == SimpleString(<<"O", "K">>)
Nil == SimpleString(<<"(", "n", "i", "l", ")">>)

Command(name, key, field, fields, value, message) ==
    [name |-> name, key |-> key, field |-> field, fields |-> fields,
     value |-> value, message |-> message]

NoCommand == Command("none", << >>, << >>, << >>, NoFrame, << >>)
Get(key) == Command("get", key, << >>, << >>, NoFrame, << >>)
Set(key, value) == Command("set", key, << >>, << >>, value, << >>)
HGet(key, field) == Command("hget", key, field, << >>, NoFrame, << >>)
HSet(key, field, value) == Command("hset", key, field, << >>, value, << >>)
HGetAll(key) == Command("hgetall", key, << >>, << >>, NoFrame, << >>)
HMGet(key, fields) == Command("hmget", key, << >>, fields, NoFrame, << >>)
Echo(message) == Command("echo", << >>, << >>, << >>, NoFrame, message)
Unrecognized == Command("unrecognized", << >>, << >>, << >>, NoFrame, << >>)

\* Get::execute
Get_execute(b, c) ==
    LET x == Backend_get(b, c.key) IN IF x.some THEN x.v ELSE RespNull

\* Set::execute
Set_execute(b, c) == [backend |-> Backend_set(b, c.key, c.value), resp |-> RESP_OK]

\* HGet::execute
HGet_execute(b, c) ==
    LET x == Backend_hget(b, c.key, c.field) IN IF x.some THEN x.v ELSE RespNull

\* HSet::execute
HSet_execute(b, c) ==
    [backend |-> Backend_hset(b, c.key, c.field, c.value), resp |-> RESP_OK]

RECURSIVE PushEntries_value_first(_, _)
\* The two pushes of the loop body swapped: value, then field.
PushEntries_value_first(inner, order) ==
    IF Len(order) = 0 THEN << >>
    ELSE <<inner[Head(order)], BulkString(Head(order))>>
             \o PushEntries_value_first(inner, Tail(order))

RECURSIVE PushEntries(_, _)
\* `for v in hmap.iter() { ret.push(key); ret.push(value) }` over the fields in
\* the order the iteration yields them.
PushEntries(inner, order) ==
    IF Len(order) = 0 THEN << >>
    ELSE <<BulkString(Head(order)), inner[Head(order)]>> \o PushEntries(inner, Tail(order))

\* HGetAll::execute; `ord` is the order in which the DashMap iterates.
HGetAll_execute(b, c, ord) ==
    IF c.key \in DOMAIN b.hmap
    THEN RespArray(PushEntries(b.hmap[c.key], MapIterOrder(b.hmap[c.key], ord)))
    ELSE RespArray(<< >>)

\* The loop body reporting a missing field the way Get and HGet do, as Null.
HMGet_push_null(b, c, acc) ==
    LET x == Backend_hget(b, c.key, c.fields[Len(acc) + 1])
    IN  Append(acc, IF x.some THEN x.v ELSE RespNull)

\* One turn of the loop of HMGet::execute: the next field is looked up and
\* the value, or the "(nil)" placeholder, is pushed onto ret.
HMGet_push(b, c, acc) ==
    LET x == Backend_hget(b, c.key, c.fields[Len(acc) + 1])
    IN  Append(acc, IF x.some THEN x.v ELSE Nil)

RECURSIVE HMGet_loop(_, _, _)
\* The whole loop of HMGet::execute run against one state of the store.
HMGet_loop(b, c, acc) ==
    IF Len(acc) = Len(c.fields) THEN acc ELSE HMGet_loop(b, c, HMGet_push(b, c, acc))

\* HMGet::execute, after the loop
HMGet_return(acc) == RespArray(acc)

\* Echo::execute
Echo_execute(c) == SimpleString(c.message)

\* An Unrecognized that answers the way a missing key is answered.
Unrecognized_execute_null(c) == RespNull

\* Unrecognized::execute
Unrecognized_execute(c) == RESP_OK

-----------------------------------------------------------------------------
(* Frame to Command conversion: the TryFrom impls of src/cmd               *)

UpperCase == <<"A", "B", "C", "D", "E", "F", "G", "H", "I", "J", "K", "L", "M",
               "N", "O", "P", "Q", "R", "S", "T", "U", "V", "W", "X", "Y", "Z">>
LowerCase == <<"a", "b", "c", "d", "e", "f", "g", "h", "i", "j", "k", "l", "m",
               "n", "o", "p", "q", "r", "s", "t", "u", "v", "w", "x", "y", "z">>

\* u8::to_ascii_lowercase
byte_to_ascii_lowercase(ch) ==
    IF \E j \in 1..Len(UpperCase) : UpperCase[j] = ch
    THEN LowerCase[CHOOSE j \in 1..Len(UpperCase) : UpperCase[j] = ch]
    ELSE ch

\* <[u8]>::to_ascii_lowercase
to_ascii_lowercase(s) == [i \in 1..Len(s) |-> byte_to_ascii_lowercase(s[i])]

\* The command names, as the byte strings the code compares with.
B_get == <<"g", "e", "t">>
B_set == <<"s", "e", "t">>
B_hget == <<"h", "g", "e", "t">>
B_hset == <<"h", "s", "e", "t">>
B_hgetall == <<"h", "g", "e", "t", "a", "l", "l">>
B_echo == <<"e", "c", "h", "o">>
B_hmget == <<"h", "m", "g", "e", "t">>

\* Result<Command, CommandError>; kind "Panic" when the conversion crashes.
CmdOk(c) == [kind |-> "Ok", cmd |-> c]
CmdErr(kind) == [kind |-> kind, cmd |-> NoCommand]

NoConv == CmdErr("none")

IsBulkString(f) == f.tag = "BulkString"

\* validate_command without its length check.
validate_command_no_len(items, names, n_args) ==
    LET bad == {i \in 1..Len(names) :
                   \/ i > Len(items)
                   \/ ~IsBulkString(items[i])
                   \/ ~items[i].some
                   \/ to_ascii_lowercase(items[i].s) # names[i]}
    IN  IF bad = {} THEN "Ok" ELSE "InvalidCommand"

\* validate_command: the length check, then each name against the element at
\* its index; the first failing index decides. `cmd.as_ref()` unwraps the
\* bytes of the BulkString and crashes on the null one.
validate_command(items, names, n_args) ==
    IF Len(items) # n_args + Len(names) THEN "InvalidArgument"
    ELSE LET bad == {i \in 1..Len(names) :
                        \/ ~IsBulkString(items[i])
                        \/ ~items[i].some
                        \/ to_ascii_lowercase(items[i].s) # names[i]}
         IN  IF bad = {} THEN "Ok"
             ELSE IF IsBulkString(items[Min(bad)]) /\ ~items[Min(bad)].some THEN "Panic"
             ELSE "InvalidCommand"

\* extract_args: the elements after the first `start`.
extract_args(items, start) == Drop(items, start)

\* String::from_utf8(key.0) in cmd/map.rs and cmd/hmap.rs, written for a
\* BulkString that holds its bytes directly; with the Option of
\* resp/bulk_string.rs the null BulkString either is unwrapped (a crash) or is
\* no BulkString with bytes (an InvalidArgument): nk is the outcome of the build.
NullKeyOutcomes == {"Panic", "InvalidArgument"}

\* `Some(RespFrame::BulkString(key))` matched by the argument at index i.
IsKeyArg(args, i) == i <= Len(args) /\ IsBulkString(args[i])

Get_try_from(items, nk) ==
    LET v == validate_command(items, <<B_get>>, 1)
        args == extract_args(items, 1)
    IN  IF v # "Ok" THEN CmdErr(v)
        ELSE IF ~IsKeyArg(args, 1) THEN CmdErr("InvalidArgument")
        ELSE IF ~args[1].some THEN CmdErr(nk)
        ELSE CmdOk(Get(args[1].s))

Set_try_from(items, nk) ==
    LET v == validate_command(items, <<B_set>>, 2)
        args == extract_args(items, 1)
    IN  IF v # "Ok" THEN CmdErr(v)
        ELSE IF ~(IsKeyArg(args, 1) /\ Len(args) >= 2) THEN CmdErr("InvalidArgument")
        ELSE IF ~args[1].some THEN CmdErr(nk)
        ELSE CmdOk(Set(args[1].s, args[2]))

HGet_try_from(items, nk) ==
    LET v == validate_command(items, <<B_hget>>, 2)
        args == extract_args(items, 1)
    IN  IF v # "Ok" THEN CmdErr(v)
        ELSE IF ~(IsKeyArg(args, 1) /\ IsKeyArg(args, 2)) THEN CmdErr("InvalidArgument")
        ELSE IF ~args[1].some \/ ~args[2].some THEN CmdErr(nk)
        ELSE CmdOk(HGet(args[1].s, args[2].s))

HGetAll_try_from(items, nk) ==
    LET v == validate_command(items, <<B_hgetall>>, 1)
        args == extract_args(items, 1)
    IN  IF v # "Ok" THEN CmdErr(v)
        ELSE IF ~IsKeyArg(args, 1) THEN CmdErr("InvalidArgument")
        ELSE IF ~args[1].some THEN CmdErr(nk)
        ELSE CmdOk(HGetAll(args[1].s))

HSet_try_from(items, nk) ==
    LET v == validate_command(items, <<B_hset>>, 3)
        args == extract_args(items, 1)
    IN  IF v # "Ok" THEN CmdErr(v)
        ELSE IF ~(IsKeyArg(args, 1) /\ IsKeyArg(args, 2) /\ Len(args) >= 3)
        THEN CmdErr("InvalidArgument")
        ELSE IF ~args[1].some \/ ~args[2].some THEN CmdErr(nk)
        ELSE CmdOk(HSet(args[1].s, args[2].s, args[3]))

\* Echo: `message.0.unwrap()` crashes on the null BulkString.
Echo_try_from(items) ==
    LET v == validate_command(items, <<B_echo>>, 1)
        args == extract_args(items, 1)
    IN  IF v # "Ok" THEN CmdErr(v)
        ELSE IF ~IsKeyArg(args, 1) THEN CmdErr("InvalidArgument")
        ELSE IF ~args[1].some THEN CmdErr("Panic")
        ELSE CmdOk(Echo(args[1].s))

\* A loop that skips what is not a BulkString instead of stopping there: how
\* many arguments are BulkStrings.
BulkRun_skipping(args) == Cardinality({i \in 1..Len(args) : IsBulkString(args[i])})

\* The `while let Some(RespFrame::BulkString(field)) = args.next()` loop of
\* HMGet: how many leading arguments are BulkStrings.
BulkRun(args) ==
    LET stops == {i \in 1..Len(args) : ~IsBulkString(args[i])}
    IN  IF stops = {} THEN Len(args) ELSE Min(stops) - 1

\* HMGet: no validate_command; key.0.unwrap() and field.0.unwrap() crash on
\* the null BulkString.
HMGet_try_from(items) ==
    LET args == extract_args(items, 1)
        rest == Drop(args, 1)
        run == Take(rest, BulkRun(rest))
    IN  IF ~IsKeyArg(args, 1) THEN CmdErr("InvalidArgument")
        ELSE IF ~args[1].some THEN CmdErr("Panic")
        ELSE IF \E i \in 1..Len(run) : ~run[i].some THEN CmdErr("Panic")
        ELSE CmdOk(HMGet(args[1].s, [i \in 1..Len(run) |-> run[i].s]))

\* impl TryFrom<RespArray> for Command: the first element's bytes are matched
\* as they are against the lower-case names.
RespArray_try_into(items, nk) ==
    IF Len(items) = 0 \/ ~IsBulkString(items[1]) THEN CmdErr("InvalidCommand")
    ELSE IF ~items[1].some THEN CmdErr("Panic")
    ELSE CASE items[1].s = B_get -> Get_try_from(items, nk)
           [] items[1].s = B_set -> Set_try_from(items, nk)
           [] items[1].s = B_hget -> HGet_try_from(items, nk)
           [] items[1].s = B_hset -> HSet_try_from(items, nk)
           [] items[1].s = B_hgetall -> HGetAll_try_from(items, nk)
           [] items[1].s = B_echo -> Echo_try_from(items)
           [] items[1].s = B_hmget -> HMGet_try_from(items)
           [] OTHER -> CmdOk(Unrecognized)

\* A conversion that takes every Frame that is no Array for an unknown command.
Command_try_from_lenient(frame, nk) ==
    IF frame.tag = "Array" THEN RespArray_try_into(frame.items, nk)
    ELSE CmdOk(Unrecognized)

\* impl TryFrom<RespFrame> for Command
Command_try_from(frame, nk) ==
    IF frame.tag = "Array" THEN RespArray_try_into(frame.items, nk)
    ELSE CmdErr("InvalidCommand")

-----------------------------------------------------------------------------
(* The server: main accepts connections and gives each task a clone of the *)
(* one Backend; a task executes one command after the other.               *)

MaxFields == 2    \* fields of one HMGet
MaxCmds == 3      \* commands started in one behaviour

Conns == {1, 2}
Keys == {<<"k">>, <<"j">>}
Fields == {<<"f">>, <<"g">>}
Vals == {BulkString(<<"v">>), Integer(1)}
Messages == {<<"h", "i">>}
FieldOrders == {<< <<"f">>, <<"g">> >>, << <<"g">>, <<"f">> >>}

Commands ==
    {Get(k) : k \in Keys}
    \cup {Set(k, v) : k \in Keys, v \in Vals}
    \cup {HGet(k, f) : k \in Keys, f \in Fields}
    \cup {HSet(x[1], x[2], x[3]) : x \in Keys \X Fields \X Vals}
    \cup {HGetAll(k) : k \in Keys}
    \cup {HMGet(k, fs) : k \in Keys, fs \in SeqsUpTo(Fields, MaxFields)}
    \cup {Echo(m) : m \in Messages}
    \cup {Unrecognized}

\* The Backend made by main (`let backend = Backend::new()`) lives at address 1.
MainBackend == 1

CodecIdle ==
    /\ sent = NoFrame /\ enc = << >> /\ fed = 0 /\ chunks = 0
    /\ in1 = << >> /\ in2 = << >> /\ out1 = NoResult /\ out2 = NoResult

\* What the store reachable through handle h holds under `key`.
Snap(heap, h, key) ==
    [flat |-> Backend_get(heap[h], key),
     hash |-> IF key \in DOMAIN heap[h].hmap THEN [some |-> TRUE, v |-> heap[h].hmap[key]]
              ELSE [some |-> FALSE, v |-> EmptyMap]]

InitServer ==
    /\ mode = "server"
    /\ CodecIdle
    /\ CmdIdle
    /\ ConnIdle
    /\ arcs = <<BackInner_new>>
    /\ handle = [c \in Conns |-> 0]
    /\ pc = [c \in Conns |-> "closed"]
    /\ cmd = [c \in Conns |-> NoCommand]
    /\ ret = [c \in Conns |-> << >>]
    /\ resp = [c \in Conns |-> NoFrame]
    /\ lastSet = [k \in Keys |-> NoFrame]
    /\ lastHSet = [x \in Keys \X Fields |-> NoFrame]
    /\ seen = [c \in Conns |-> {}]
    /\ overlap = [c \in Conns |-> {}]
    /\ issued = 0

\* main's loop body: accept, clone the Backend, spawn the connection task.
Accept(c) ==
    /\ mode = "server"
    /\ pc[c] = "closed"
    /\ LET x == Backend_clone(arcs, MainBackend)
       IN  /\ arcs' = x.heap
           /\ handle' = [handle EXCEPT ![c] = x.h]
    /\ pc' = [pc EXCEPT ![c] = "idle"]
    /\ UNCHANGED <<cmd, ret, resp, lastSet, lastHSet, seen, overlap, issued>>
    /\ UNCHANGED <<mode, codecVars, cmdVars, connVars>>

\* A request has been turned into a Command; its execution starts.
Start(c, command) ==
    /\ mode = "server"
    /\ pc[c] = "idle"
    /\ issued < MaxCmds
    /\ pc' = [pc EXCEPT ![c] = "run"]
    /\ cmd' = [cmd EXCEPT ![c] = command]
    /\ ret' = [ret EXCEPT ![c] = << >>]
    /\ resp' = [resp EXCEPT ![c] = NoFrame]
    /\ seen' = [seen EXCEPT ![c] = {Snap(arcs, handle[c], command.key)}]
    /\ overlap' = [e \in Conns |->
                     IF e = c THEN {d \in Conns \ {c} : pc[d] = "run"}
                     ELSE IF pc[e] = "run" THEN overlap[e] \cup {c}
                     ELSE overlap[e]]
    /\ issued' = issued + 1
    /\ UNCHANGED <<arcs, handle, lastSet, lastHSet>>
    /\ UNCHANGED <<mode, codecVars, cmdVars, connVars>>

\* The task's Backend handle goes out of scope: an Arc clone is dropped while
\* main still holds the Backend, so the BackInner stays as it is.
Backend_drop_clear(heap, h) == [heap EXCEPT ![h] = BackInner_new]

Backend_drop(heap, h) == heap

\* The outcome of the request held in the codec variables: the decode result
\* of the strategy in use and, when a Frame was decoded, the conversion result.
Decoded == IF out1 # NoResult THEN out1 ELSE out2

RequestFailed ==
    \/ Decoded.kind \notin {"Ok", "NotComplete", "none"}
    \/ Decoded.kind = "Ok" /\ conv.kind # "Ok"

\* The request of task c has failed in decoding or conversion: the error
\* leaves stream_handler, the task ends and its Backend handle is dropped.
Fault(c) ==
    /\ mode = "server"
    /\ pc[c] = "idle"
    /\ issued < MaxCmds
    /\ RequestFailed
    /\ arcs' = Backend_drop(arcs, handle[c])
    /\ handle' = [handle EXCEPT ![c] = 0]
    /\ pc' = [pc EXCEPT ![c] = "faulted"]
    /\ issued' = issued + 1
    /\ UNCHANGED <<cmd, ret, resp, lastSet, lastHSet, seen, overlap>>
    /\ UNCHANGED <<mode, codecVars, cmdVars, connVars>>

\* A return from a lookup made through entry(key).or_default(): an empty
\* inner map is left under a key that had none.
Return_creating(c, r) ==
    /\ LET b == arcs[handle[c]]
           inner == IF cmd[c].key \in DOMAIN b.hmap THEN b.hmap[cmd[c].key] ELSE EmptyMap
       IN  arcs' = [arcs EXCEPT ![handle[c]] =
                       [map |-> b.map, hmap |-> MapInsert(b.hmap, cmd[c].key, inner)]]
    /\ pc' = [pc EXCEPT ![c] = "done"]
    /\ resp' = [resp EXCEPT ![c] = r]
    /\ UNCHANGED <<handle, cmd, ret, lastSet, lastHSet, seen, overlap, issued>>
    /\ UNCHANGED <<mode, codecVars, cmdVars, connVars>>

\* The command of task c returns response r without writing to the store.
Return(c, r) ==
    /\ pc' = [pc EXCEPT ![c] = "done"]
    /\ resp' = [resp EXCEPT ![c] = r]
    /\ UNCHANGED <<arcs, handle, cmd, ret, lastSet, lastHSet, seen, overlap, issued>>
    /\ UNCHANGED <<mode, codecVars, cmdVars, connVars>>

\* The command of task c leaves its store as b and returns r; every command
\* in flight on another task has now seen one more state of the store.
Write(c, b, r) ==
    /\ arcs' = [arcs EXCEPT ![handle[c]] = b]
    /\ pc' = [pc EXCEPT ![c] = "done"]
    /\ resp' = [resp EXCEPT ![c] = r]
    /\ seen' = [e \in Conns |->
                  IF e # c /\ pc[e] = "run"
                  THEN seen[e] \cup {Snap(arcs', handle[e], cmd[e].key)}
                  ELSE seen[e]]
    /\ UNCHANGED <<handle, cmd, ret, overlap, issued>>
    /\ UNCHANGED <<mode, codecVars, cmdVars, connVars>>

Running(c, name) == mode = "server" /\ pc[c] = "run" /\ cmd[c].name = name

ExecGet(c) ==
    /\ Running(c, "get")
    /\ Return(c, Get_execute(arcs[handle[c]], cmd[c]))

ExecSet(c) ==
    /\ Running(c, "set")
    /\ LET x == Set_execute(arcs[handle[c]], cmd[c]) IN Write(c, x.backend, x.resp)
    /\ lastSet' = [lastSet EXCEPT ![cmd[c].key] = cmd[c].value]
    /\ UNCHANGED lastHSet

ExecHGet(c) ==
    /\ Running(c, "hget")
    /\ Return(c, HGet_execute(arcs[handle[c]], cmd[c]))

ExecHSet(c) ==
    /\ Running(c, "hset")
    /\ LET x == HSet_execute(arcs[handle[c]], cmd[c]) IN Write(c, x.backend, x.resp)
    /\ lastHSet' = [lastHSet EXCEPT ![<<cmd[c].key, cmd[c].field>>] = cmd[c].value]
    /\ UNCHANGED lastSet

ExecHGetAll(c) ==
    /\ Running(c, "hgetall")
    /\ \E ord \in FieldOrders : Return(c, HGetAll_execute(arcs[handle[c]], cmd[c], ord))

\* One hget of HMGet's loop; other tasks may run between two turns.
ExecHMGetPush(c) ==
    /\ Running(c, "hmget")
    /\ Len(ret[c]) < Len(cmd[c].fields)
    /\ ret' = [ret EXCEPT ![c] = HMGet_push(arcs[handle[c]], cmd[c], ret[c])]
    /\ UNCHANGED <<arcs, handle, pc, cmd, resp, lastSet, lastHSet, seen, overlap, issued>>
    /\ UNCHANGED <<mode, codecVars, cmdVars, connVars>>

ExecHMGetReturn(c) ==
    /\ Running(c, "hmget")
    /\ Len(ret[c]) = Len(cmd[c].fields)
    /\ Return(c, HMGet_return(ret[c]))

ExecEcho(c) ==
    /\ Running(c, "echo")
    /\ Return(c, Echo_execute(cmd[c]))

ExecUnrecognized(c) ==
    /\ Running(c, "unrecognized")
    /\ Return(c, Unrecognized_execute(cmd[c]))

\* The response has been written to the socket; the task waits for a request.
Reply(c) ==
    /\ mode = "server"
    /\ pc[c] = "done"
    /\ pc' = [pc EXCEPT ![c] = "idle"]
    /\ cmd' = [cmd EXCEPT ![c] = NoCommand]
    /\ ret' = [ret EXCEPT ![c] = << >>]
    /\ resp' = [resp EXCEPT ![c] = NoFrame]
    /\ seen' = [seen EXCEPT ![c] = {}]
    /\ overlap' = [e \in Conns |-> IF e = c THEN {} ELSE overlap[e] \ {c}]
    /\ UNCHANGED <<arcs, handle, lastSet, lastHSet, issued>>
    /\ UNCHANGED <<mode, codecVars, cmdVars, connVars>>

Exec(c) ==
    \/ ExecGet(c)
    \/ ExecSet(c)
    \/ ExecHGet(c)
    \/ ExecHSet(c)
    \/ ExecHGetAll(c)
    \/ ExecHMGetPush(c)
    \/ ExecHMGetReturn(c)
    \/ ExecEcho(c)
    \/ ExecUnrecognized(c)

\* Connection tasks run in parallel: any task may take the next step.
Next ==
    \E c \in Conns :
        \/ Accept(c)
        \/ \E command \in Commands : Start(c, command)
        \/ Exec(c)
        \/ Reply(c)

Spec == InitServer /\ [][Next]_vars

\* Commands executed one at a time: a command starts only when no other task
\* is between the start and the reply of one.
NoneInFlight == \A d \in Conns : pc[d] \in {"closed", "idle", "faulted"}

NextSeq ==
    \E c \in Conns :
        \/ Accept(c)
        \/ \E command \in Commands : NoneInFlight /\ Start(c, command)
        \/ Exec(c)
        \/ Reply(c)

SpecSeq == InitServer /\ [][NextSeq]_vars

-----------------------------------------------------------------------------
(* Failing requests: the server as above, with one request on the wire     *)
(* that a connection may send at any moment.                               *)

Bytes(f) == Encode(f, CHOOSE ord \in KeyOrders : TRUE)

RequestBuffers ==
    {Bytes(RespArray(<<BulkString(B_get)>>)),
     Bytes(RespArray(<<Integer(1)>>)),
     <<"*", "x", CR, LF>>}

\* stream_handler on the bytes of one request: decode with the strategy the
\* build uses, then Command::try_from on the Frame decoded.
InitFault ==
    /\ mode = "server"
    /\ sent = NoFrame /\ enc = << >> /\ fed = 0 /\ chunks = 0
    /\ \E buf \in RequestBuffers, dec \in {"v1", "v2"}, nk \in NullKeyOutcomes :
        /\ in1 = (IF dec = "v1" THEN buf ELSE << >>)
        /\ in2 = (IF dec = "v2" THEN buf ELSE << >>)
        /\ out1 = (IF dec = "v1" THEN RespFrame_decode(buf) ELSE NoResult)
        /\ out2 = (IF dec = "v2" THEN RespFrameV2_decode(buf) ELSE NoResult)
        /\ req = Decoded.frame
        /\ conv = (IF Decoded.kind = "Ok" THEN Command_try_from(req, nk) ELSE NoConv)
    /\ reply = NoFrame
    /\ ConnIdle
    /\ arcs = <<BackInner_new>>
    /\ handle = [c \in Conns |-> 0]
    /\ pc = [c \in Conns |-> "closed"]
    /\ cmd = [c \in Conns |-> NoCommand]
    /\ ret = [c \in Conns |-> << >>]
    /\ resp = [c \in Conns |-> NoFrame]
    /\ lastSet = [k \in Keys |-> NoFrame]
    /\ lastHSet = [x \in Keys \X Fields |-> NoFrame]
    /\ seen = [c \in Conns |-> {}]
    /\ overlap = [c \in Conns |-> {}]
    /\ issued = 0

NextFault ==
    \E c \in Conns :
        \/ Accept(c)
        \/ \E command \in Commands : NoneInFlight /\ Start(c, command)
        \/ Fault(c)
        \/ Exec(c)
        \/ Reply(c)

SpecFault == InitFault /\ [][NextFault]_vars

-----------------------------------------------------------------------------
(* Conversion: one request Frame is converted and, when that succeeds, the *)
(* Command is executed against a new Backend.                              *)

MaxArgs == 4    \* elements of a request Array after the first

CommandNames ==
    {B_get, B_set, B_hget, B_hset, B_hgetall, B_echo, B_hmget,
     <<"G", "E", "T">>, <<"G", "e", "t">>, <<"H", "S", "E", "T">>, <<"f", "o", "o">>}

FirstElems ==
    {BulkString(n) : n \in CommandNames}
    \cup {BulkStringNull, Integer(1), SimpleString(B_get)}

ArgElems == {BulkString(<<"k">>), Integer(1), BulkStringNull}

RequestFrames ==
    {RespArray(<<first>> \o args) :
        first \in FirstElems, args \in SeqsUpTo(ArgElems, MaxArgs)}
    \cup {RespArray(<< >>), RespNullArray, RespNull, BulkString(B_get),
          SimpleString(B_get), Integer(1)}

InitCmd ==
    /\ mode = "cmd"
    /\ req \in RequestFrames
    /\ conv = NoConv
    /\ reply = NoFrame
    /\ CodecIdle
    /\ ServerIdle
    /\ ConnIdle

\* request_handler: Command::try_from(frame)
Convert(nk) ==
    /\ mode = "cmd"
    /\ conv = NoConv
    /\ conv' = Command_try_from(req, nk)
    /\ UNCHANGED <<mode, req, reply, codecVars, serverVars, connVars>>

\* request_handler: cmd.execute(&backend), reached when the conversion is Ok.
Execute ==
    /\ mode = "cmd"
    /\ conv.kind = "Ok"
    /\ reply = NoFrame
    /\ \E ord \in FieldOrders, b \in {BackInner_new} :
        reply' =
            CASE conv.cmd.name = "get" -> Get_execute(b, conv.cmd)
              [] conv.cmd.name = "set" -> Set_execute(b, conv.cmd).resp
              [] conv.cmd.name = "hget" -> HGet_execute(b, conv.cmd)
              [] conv.cmd.name = "hset" -> HSet_execute(b, conv.cmd).resp
              [] conv.cmd.name = "hgetall" -> HGetAll_execute(b, conv.cmd, ord)
              [] conv.cmd.name = "hmget" ->
                     HMGet_return(HMGet_loop(b, conv.cmd, << >>))
              [] conv.cmd.name = "echo" -> Echo_execute(conv.cmd)
              [] OTHER -> Unrecognized_execute(conv.cmd)
    /\ UNCHANGED <<mode, req, conv, codecVars, serverVars, connVars>>

NextCmd ==
    \/ \E nk \in NullKeyOutcomes : Convert(nk)
    \/ Execute

SpecCmd == InitCmd /\ [][NextCmd]_vars

-----------------------------------------------------------------------------
(* One connection: the loop of stream_handler.  The client's requests      *)
(* arrive as a byte stream cut into reads; each frame decoded from the     *)
(* read buffer is converted, executed and answered before the next decode. *)

MaxRequests == 2
MaxReads == 2

\* The requests a client sends.
ClientRequests ==
    { RespArray(<<BulkString(B_set), BulkString(<<"k">>), BulkString(<<"v">>)>>),
      RespArray(<<BulkString(B_set), BulkString(<<"k">>), BulkString(<< >>)>>),
      RespArray(<<BulkString(B_get), BulkString(<<"k">>)>>) }

RECURSIVE BytesOfAll(_)
BytesOfAll(frames) ==
    IF Len(frames) = 0 THEN << >> ELSE Bytes(Head(frames)) \o BytesOfAll(Tail(frames))

\* Command::execute: enum_dispatch to the variant's executor; the store as the
\* command leaves it and the response.
Command_execute(b, c, ord) ==
    CASE c.name = "get" -> [backend |-> b, resp |-> Get_execute(b, c)]
      [] c.name = "set" -> Set_execute(b, c)
      [] c.name = "hget" -> [backend |-> b, resp |-> HGet_execute(b, c)]
      [] c.name = "hset" -> HSet_execute(b, c)
      [] c.name = "hgetall" -> [backend |-> b, resp |-> HGetAll_execute(b, c, ord)]
      [] c.name = "hmget" -> [backend |-> b, resp |-> HMGet_return(HMGet_loop(b, c, << >>))]
      [] c.name = "echo" -> [backend |-> b, resp |-> Echo_execute(c)]
      [] OTHER -> [backend |-> b, resp |-> Unrecognized_execute(c)]

InitConn ==
    /\ mode = "conn"
    /\ strategy \in {"v1", "v2"}
    /\ requests \in UNION {[1..n -> ClientRequests] : n \in 1..MaxRequests}
    /\ wire = BytesOfAll(requests)
    /\ arrived = 0 /\ reads = 0
    /\ buffer = << >>
    /\ loop = "read"
    /\ last = NoResult
    /\ executed = << >> /\ written = << >>
    /\ store = BackInner_new
    /\ CodecIdle
    /\ ServerIdle
    /\ CmdIdle

\* The socket delivers the next n bytes; they are appended to the read buffer.
Read(n) ==
    /\ mode = "conn"
    /\ loop = "read"
    /\ reads < MaxReads
    /\ arrived + n <= Len(wire)
    /\ buffer' = buffer \o SubSeq(wire, arrived + 1, arrived + n)
    /\ arrived' = arrived + n
    /\ reads' = reads + 1
    /\ loop' = "decode"
    /\ UNCHANGED <<strategy, requests, wire, last, executed, written, store>>
    /\ UNCHANGED <<mode, codecVars, serverVars, cmdVars>>

\* One turn of the loop on the buffer: decode; on NotComplete wait for more
\* bytes; on a Frame convert it, execute the Command and write the response;
\* on any other error end the connection.
Serve ==
    /\ mode = "conn"
    /\ loop = "decode"
    /\ \E d \in {IF strategy = "v1" THEN RespFrame_decode(buffer)
                 ELSE RespFrameV2_decode(buffer)} :
           /\ last' = d
           /\ buffer' = d.rest
           /\ IF d.kind = "NotComplete"
              THEN /\ loop' = "read"
                   /\ UNCHANGED <<executed, written, store>>
              ELSE IF d.kind # "Ok"
              THEN /\ loop' = "faulted"
                   /\ UNCHANGED <<executed, written, store>>
              ELSE \E nk \in NullKeyOutcomes, ord \in FieldOrders :
                     \E c \in {Command_try_from(d.frame, nk)} :
                         IF c.kind # "Ok"
                         THEN /\ loop' = "faulted"
                              /\ UNCHANGED <<executed, written, store>>
                         ELSE \E x \in {Command_execute(store, c.cmd, ord)} :
                                /\ loop' = "decode"
                                /\ executed' = Append(executed, c.cmd)
                                /\ written' = Append(written, x.resp)
                                /\ store' = x.backend
    /\ UNCHANGED <<strategy, requests, wire, arrived, reads>>
    /\ UNCHANGED <<mode, codecVars, serverVars, cmdVars>>

NextConn ==
    \/ \E n \in 1..Len(wire) : Read(n)
    \/ Serve

SpecConn == InitConn /\ [][NextConn]_vars

-----------------------------------------------------------------------------
(* Claims about the codec                                                  *)

\* C1: round trip.  When the whole encoding of a Frame f arrives in one
\* piece, each decode strategy returns a Frame structurally equal to f (Map
\* entries compared as a mapping, Set and Array elements in order).
C1_RoundTrip ==
    (mode = "codec" /\ chunks = 1 /\ fed = Len(enc)) =>
        /\ out1.kind = "Ok" /\ out1.frame = sent
        /\ out2.kind = "Ok" /\ out2.frame = sent

\* C2: fragmentation invariance.  While part of the encoding is still to
\* arrive every decode attempt returns NotComplete, and the attempt after the
\* last of two or more chunks returns the Frame that decoding the unsplit
\* bytes returns.
C2_Fragmentation ==
    (mode = "codec" /\ chunks >= 1) =>
        /\ fed < Len(enc) => (out1.kind = "NotComplete" /\ out2.kind = "NotComplete")
        /\ (fed = Len(enc) /\ chunks = 2) =>
              /\ out1.kind = "Ok" /\ out1.frame = RespFrame_decode(enc).frame
              /\ out2.kind = "Ok" /\ out2.frame = RespFrameV2_decode(enc).frame

\* C3: the two decode strategies agree on every input buffer: same outcome
\* class, and when both return a Frame, the same Frame and the same number of
\* bytes removed from the buffer.
C3_DecodersAgree ==
    (mode = "raw" /\ chunks >= 1) =>
        /\ Class(out1) = Class(out2)
        /\ (out1.kind = "Ok" /\ out2.kind = "Ok") =>
              (out1.frame = out2.frame /\ Len(out1.rest) = Len(out2.rest))



-----------------------------------------------------------------------------
(* Claims about the commands and the shared store                          *)

\* What a read reports for a history value x: x itself, or `absent` when no
\* write has given one.
Observed(x, absent) == IF x = NoFrame THEN absent ELSE x

\* The fields some HSet has stored under key.
StoredFields(key) == {f \in Fields : lastHSet[<<key, f>>] # NoFrame}

Done(c, name) == mode = "server" /\ pc[c] = "done" /\ cmd[c].name = name

\* C4: with commands executed one at a time, Get returns exactly the Frame given
\* to the most recent Set on its key, Null when the key was never Set; Set
\* returns SimpleString "OK".
C4_GetSet ==
    mode = "server" =>
        \A c \in Conns :
            /\ Done(c, "get") => resp[c] = Observed(lastSet[cmd[c].key], RespNull)
            /\ Done(c, "set") => resp[c] = RESP_OK

\* C4 witness: a Get has returned the Frame a Set stored under its key.
C4_Witness ==
    /\ mode = "server"
    /\ \E c \in Conns :
        /\ Done(c, "get")
        /\ lastSet[cmd[c].key] \in Vals
        /\ resp[c] = lastSet[cmd[c].key]

\* C5: with commands executed one at a time, HGet returns exactly the Frame
\* given to the most recent HSet on its (key, field), Null when the key has no
\* hash or the hash has no such field; HSet returns SimpleString "OK" and leaves
\* an inner map under the key that holds the field.
C5_HGetHSet ==
    mode = "server" =>
        \A c \in Conns :
            /\ Done(c, "hget") =>
                   resp[c] = Observed(lastHSet[<<cmd[c].key, cmd[c].field>>], RespNull)
            /\ Done(c, "hset") =>
                   /\ resp[c] = RESP_OK
                   /\ cmd[c].key \in DOMAIN arcs[handle[c]].hmap
                   /\ cmd[c].field \in DOMAIN arcs[handle[c]].hmap[cmd[c].key]
                   /\ arcs[handle[c]].hmap[cmd[c].key][cmd[c].field] = cmd[c].value

\* C5 witness: an HGet has returned the Frame an HSet stored.
C5_Witness ==
    /\ mode = "server"
    /\ \E c \in Conns :
        /\ Done(c, "hget")
        /\ lastHSet[<<cmd[c].key, cmd[c].field>>] \in Vals
        /\ resp[c] = lastHSet[<<cmd[c].key, cmd[c].field>>]

\* C6: HGetAll on a key whose hash holds n fields returns an Array of exactly 2n
\* elements in which every stored field appears exactly once as a BulkString,
\* immediately followed by the field's current value; on a key with no hash it
\* returns the empty Array.
C6_HGetAll ==
    mode = "server" =>
        \A c \in Conns :
            Done(c, "hgetall") =>
                LET items == resp[c].items
                    stored == StoredFields(cmd[c].key)
                IN  /\ resp[c] = RespArray(items)
                    /\ Len(items) = 2 * Cardinality(stored)
                    /\ \A f \in stored :
                        LET at == {i \in 1..Len(items) : items[i] = BulkString(f)}
                        IN  /\ Cardinality(at) = 1
                            /\ \A i \in at :
                                /\ i < Len(items)
                                /\ items[i + 1] = lastHSet[<<cmd[c].key, f>>]

\* C6 witness: an HGetAll has returned the four elements of a hash of two fields.
C6_Witness ==
    /\ mode = "server"
    /\ \E c \in Conns :
        /\ Done(c, "hgetall")
        /\ StoredFields(cmd[c].key) = Fields
        /\ Len(resp[c].items) = 4

\* C7: HMGet returns an Array with exactly one element per requested field, in
\* request order: element i is the Frame stored under fields[i], or
\* SimpleString "(nil)" when that field or the whole key is absent.
C7_HMGet ==
    mode = "server" =>
        \A c \in Conns :
            Done(c, "hmget") =>
                resp[c] = RespArray([i \in 1..Len(cmd[c].fields) |->
                              Observed(lastHSet[<<cmd[c].key, cmd[c].fields[i]>>], Nil)])

\* C7 witness: an HMGet over a stored field and a missing one has returned the
\* stored value followed by "(nil)".
C7_Witness ==
    /\ mode = "server"
    /\ \E c \in Conns :
        /\ Done(c, "hmget")
        /\ Len(cmd[c].fields) = 2
        /\ lastHSet[<<cmd[c].key, cmd[c].fields[1]>>] \in Vals
        /\ lastHSet[<<cmd[c].key, cmd[c].fields[2]>>] = NoFrame
        /\ resp[c] = RespArray(<<lastHSet[<<cmd[c].key, cmd[c].fields[1]>>], Nil>>)

\* Tasks c and d have both finished a Set, and the two Sets were executing at
\* the same time.
ConcurrentSets(c, d) ==
    /\ c # d
    /\ Done(c, "set") /\ Done(d, "set")
    /\ d \in overlap[c]

\* C8: under any interleaving, two concurrent Sets on distinct keys both take
\* effect, and two concurrent Sets on the same key leave the key holding
\* exactly one of the two written values.
C8_ConcurrentSets ==
    mode = "server" =>
        \A c, d \in Conns :
            ConcurrentSets(c, d) =>
                IF cmd[c].key # cmd[d].key
                THEN /\ Backend_get(arcs[handle[c]], cmd[c].key) = Some(cmd[c].value)
                     /\ Backend_get(arcs[handle[c]], cmd[d].key) = Some(cmd[d].value)
                ELSE Backend_get(arcs[handle[c]], cmd[c].key)
                         \in {Some(cmd[c].value), Some(cmd[d].value)}

\* C8 witness: two concurrent Sets of different values to one key have finished.
C8_Witness ==
    /\ mode = "server"
    /\ \E c, d \in Conns :
        /\ ConcurrentSets(c, d)
        /\ cmd[c].key = cmd[d].key
        /\ cmd[c].value # cmd[d].value

\* The store that holds under `key` what snapshot s recorded.
StoreOf(s, key) ==
    [map |-> IF s.flat.some THEN MapInsert(EmptyMap, key, s.flat.v) ELSE EmptyMap,
     hmap |-> IF s.hash.some THEN MapInsert(EmptyMap, key, s.hash.v) ELSE EmptyMap]

\* The responses command c can give when it runs atomically against store b.
AtomicResponses(c, b) ==
    CASE c.name = "get" -> {Get_execute(b, c)}
      [] c.name = "set" -> {Set_execute(b, c).resp}
      [] c.name = "hget" -> {HGet_execute(b, c)}
      [] c.name = "hset" -> {HSet_execute(b, c).resp}
      [] c.name = "hgetall" -> {HGetAll_execute(b, c, ord) : ord \in FieldOrders}
      [] c.name = "hmget" -> {HMGet_return(HMGet_loop(b, c, << >>))}
      [] c.name = "echo" -> {Echo_execute(c)}
      [] OTHER -> {Unrecognized_execute(c)}

\* C9: every command is linearizable with respect to concurrent commands on
\* its key: its response is the one it would give if it ran atomically against
\* a state the store held at one instant between its start and its end.
C9_Linearizable ==
    mode = "server" =>
        \A c \in Conns :
            pc[c] = "done" =>
                \E s \in seen[c] :
                    resp[c] \in AtomicResponses(cmd[c], StoreOf(s, cmd[c].key))

\* The latest value a read of task c that completes a lookup in this step has
\* to report, and what it reports.
ReadObservesLatest(c) ==
    /\ (Running(c, "get") /\ pc'[c] = "done") =>
           resp'[c] = Observed(lastSet[cmd[c].key], RespNull)
    /\ (Running(c, "hget") /\ pc'[c] = "done") =>
           resp'[c] = Observed(lastHSet[<<cmd[c].key, cmd[c].field>>], RespNull)
    /\ (Running(c, "hgetall") /\ pc'[c] = "done") =>
           /\ Len(resp'[c].items) = 2 * Cardinality(StoredFields(cmd[c].key))
           /\ \A i \in 1..Len(resp'[c].items) :
                  i % 2 = 1 =>
                      \E f \in StoredFields(cmd[c].key) :
                          /\ resp'[c].items[i] = BulkString(f)
                          /\ resp'[c].items[i + 1] = lastHSet[<<cmd[c].key, f>>]
    /\ (Running(c, "hmget") /\ Len(ret'[c]) = Len(ret[c]) + 1) =>
           ret'[c][Len(ret'[c])] =
               Observed(lastHSet[<<cmd[c].key, cmd[c].fields[Len(ret'[c])]>>], Nil)

\* C10: all connection tasks operate on one Backend: every lookup of a Get,
\* HGet, HGetAll or HMGet, on any connection, reports what the Sets and HSets
\* completed before it, on any connection, have stored.
C10_SharedBackend == [][mode = "server" => \A c \in Conns : ReadObservesLatest(c)]_vars

\* C10 witness: a Get that started after a Set had finished on the other
\* connection has returned the value of that Set.
C10_Witness ==
    /\ mode = "server"
    /\ \E c, d \in Conns :
        /\ c # d
        /\ Done(d, "set")
        /\ Done(c, "get")
        /\ d \notin overlap[c]
        /\ issued = 2
        /\ cmd[c].key = cmd[d].key
        /\ resp[c] = cmd[d].value


-----------------------------------------------------------------------------
(* Claims about Frame to Command conversion                                *)

Converted == mode = "cmd" /\ conv # NoConv

\* The request is an Array whose first element is a BulkString that holds bytes.
NamedRequest == req.tag = "Array" /\ Len(req.items) > 0
                    /\ IsBulkString(req.items[1]) /\ req.items[1].some

FixedArity ==
    (B_get :> 1) @@ (B_hgetall :> 1) @@ (B_echo :> 1) @@ (B_set :> 2)
        @@ (B_hget :> 2) @@ (B_hset :> 3)

C12_InvalidCommand ==
    (/\ Converted
     /\ \/ req.tag # "Array"
        \/ Len(req.items) = 0
        \/ ~IsBulkString(req.items[1]))
        => conv = CmdErr("InvalidCommand")

\* C12 witness: a request that is no Array was refused as an invalid command.
C12_Witness ==
    /\ Converted
    /\ req = BulkString(B_get)
    /\ conv = CmdErr("InvalidCommand")

\* The request with its command name lower-cased.
LowerCased(frame) ==
    RespArray(<<BulkString(to_ascii_lowercase(frame.items[1].s))>> \o Tail(frame.items))

\* C13: the command name is matched after ASCII lower-casing: a request
\* converts to what the same request with its name in lower case converts to.
C13_CaseInsensitive ==
    (Converted /\ NamedRequest)
        => \E nk \in NullKeyOutcomes : conv = Command_try_from(LowerCased(req), nk)

\* C14: an Array whose first BulkString is none of get, set, hget, hset,
\* hgetall, hmget, echo converts to Unrecognized whatever its other elements
\* are, and executing Unrecognized returns SimpleString "OK".
C14_Unrecognized ==
    (/\ Converted
     /\ NamedRequest
     /\ to_ascii_lowercase(req.items[1].s)
            \notin {B_get, B_set, B_hget, B_hset, B_hgetall, B_hmget, B_echo})
        => /\ conv = CmdOk(Unrecognized)
           /\ reply \in {NoFrame, RESP_OK}

\* C14 witness: an unknown command with arguments that are no BulkStrings was
\* converted to Unrecognized and answered "OK".
C14_Witness ==
    /\ Converted
    /\ NamedRequest
    /\ req.items[1].s = <<"f", "o", "o">>
    /\ Len(req.items) = 3
    /\ req.items[2] = Integer(1)
    /\ req.items[3] = BulkStringNull
    /\ conv = CmdOk(Unrecognized)
    /\ reply = RESP_OK


-----------------------------------------------------------------------------
(* Claims about failed requests                                            *)

\* In this step the request of task c fails.
Fails(c) == pc[c] = "idle" /\ pc'[c] = "faulted"

\* C15: when decoding or conversion fails for a request, both Backend
\* namespaces are as they were before the request, and every other connection
\* is where it was: its command, its partial result and its response are
\* untouched and the store it reads still holds what the completed Sets and
\* HSets wrote.
C15_FailureIsolated ==
    [][mode = "server" =>
        \A c \in Conns :
            Fails(c) =>
                /\ arcs' = arcs
                /\ \A k \in Keys :
                    /\ Backend_get(arcs'[MainBackend], k)
                           = IF lastSet[k] = NoFrame THEN None ELSE Some(lastSet[k])
                    /\ \A f \in Fields :
                        Backend_hget(arcs'[MainBackend], k, f)
                            = IF lastHSet[<<k, f>>] = NoFrame THEN None
                              ELSE Some(lastHSet[<<k, f>>])
                /\ \A d \in Conns \ {c} :
                    /\ pc'[d] = pc[d] /\ cmd'[d] = cmd[d] /\ ret'[d] = ret[d]
                    /\ resp'[d] = resp[d] /\ handle'[d] = handle[d]]_vars

\* C15 witness: a connection has failed while the store held a value and a
\* flat read on the other connection has returned a stored value.
C15_Witness ==
    /\ mode = "server"
    /\ \E c, d \in Conns :
        /\ pc[c] = "faulted"
        /\ Done(d, "get")
        /\ resp[d] \in Vals
        /\ resp[d] = lastSet[cmd[d].key]

-----------------------------------------------------------------------------
(* Claims about malformed and boundary inputs of the decoders              *)

\* The first bytes that open a frame.
KnownPrefixes == {"+", "-", ":", "$", "*", "_", "#", ",", "%", "~"}

\* The text of the length line of buf: the bytes after the prefix and before
\* the first CRLF; HasLengthLine says that this CRLF has arrived.
LineEnd(buf) ==
    IF \E i \in 2..(Len(buf) - 1) : buf[i] = CR /\ buf[i + 1] = LF
    THEN CHOOSE i \in 2..(Len(buf) - 1) :
            /\ buf[i] = CR /\ buf[i + 1] = LF
            /\ \A j \in 2..(i - 1) : ~(buf[j] = CR /\ buf[j + 1] = LF)
    ELSE 0

HasLengthLine(buf) == LineEnd(buf) > 0

LengthLine(buf) == SubSeq(buf, 2, LineEnd(buf) - 1)

BadPrefix(buf) == Len(buf) >= 1 /\ buf[1] \notin KnownPrefixes

NonNumericLength(buf) ==
    /\ Len(buf) >= 1 /\ buf[1] \in {"$", "*", "%", "~"}
    /\ HasLengthLine(buf)
    /\ \E i \in 1..Len(LengthLine(buf)) : LengthLine(buf)[i] \notin DigitSet \cup {"+", "-"}

NegativeLength(buf) ==
    /\ Len(buf) >= 1 /\ buf[1] \in {"$", "*"}
    /\ HasLengthLine(buf)
    /\ Len(LengthLine(buf)) >= 2
    /\ LengthLine(buf)[1] = "-"
    /\ IsDigits(Drop(LengthLine(buf), 1))
    /\ DigitsVal(Drop(LengthLine(buf), 1)) >= 2

\* A buffer that no appended bytes can turn into a valid frame.
Hopeless(buf) == BadPrefix(buf) \/ NonNumericLength(buf) \/ NegativeLength(buf)

\* C16: a buffer that no appended bytes can turn into a valid frame (unknown
\* first byte, non-numeric length, negative length other than -1 on a
\* BulkString or Array) is reported as malformed, never as NotComplete, by
\* both decode strategies.
C16_MalformedReported ==
    (mode = "raw" /\ chunks >= 1 /\ Hopeless(in1)) =>
        /\ Class(out1) = "malformed"
        /\ Class(out2) = "malformed"

\* The buffers that declare a container of count 0, and the Frame each stands for.
EmptyContainers ==
    { [buf |-> <<"*", "0", CR, LF>>, frame |-> RespArray(<< >>)],
      [buf |-> <<"%", "0", CR, LF>>, frame |-> RespMap(EmptyMap)],
      [buf |-> <<"~", "0", CR, LF>>, frame |-> RespSet(<< >>)] }

\* C17: an Array, Map or Set with declared count 0 ("*0\r\n", "%0\r\n",
\* "~0\r\n") is accepted by the decoder and yields the empty container of that
\* variant, under either decode strategy.
C17_EmptyContainers ==
    \A x \in EmptyContainers :
        (mode = "raw" /\ in1 = x.buf) =>
            /\ out1 = R("Ok", x.frame, << >>)
            /\ out2 = R("Ok", x.frame, << >>)

\* The buffer of a Map that declares n after '%' and holds k key/value pairs.
RECURSIVE Pairs(_)
Pairs(k) == IF k = 0 THEN << >> ELSE PairPiece \o Pairs(k - 1)

MapBuf(n, k) == <<"%">> \o NatToBytes(n) \o CRLF \o Pairs(k)

\* C18: the number N after '%' counts frames: a buffer that declares N and
\* holds N/2 key/value pairs is a whole Map for both decode strategies (probe
\* and consume pass: the Map is returned and no byte is left), and a Map that
\* declares an odd N is rejected as malformed.
C18_MapCountsFrames ==
    \A n \in 1..2 :
        (mode = "raw" /\ in1 = MapBuf(n, n \div 2)) =>
            IF n % 2 = 1
            THEN Class(out1) = "malformed" /\ Class(out2) = "malformed"
            ELSE /\ out1 = R("Ok", RespMap(MapInsert(EmptyMap, <<"k">>, RespNull)), << >>)
                 /\ out2 = R("Ok", RespMap(MapInsert(EmptyMap, <<"k">>, RespNull)), << >>)

-----------------------------------------------------------------------------
(* Claims about encoding                                                   *)

\* C19: encode is a function of the Frame value: the bytes written for a
\* Frame are the bytes every other encoding of an equal Frame writes,
\* whatever order its HashMap hands out the entries in; Maps with two or more
\* entries included.
C19_EncodeDeterministic ==
    mode = "codec" => \A ord \in KeyOrders : Encode(sent, ord) = enc

\* The Double n * 10^e has absolute value 10^8 or more.
AbsAtLeast1e8(n, e) == n # 0 /\ SciExp(n, e) >= 8

\* The bytes hold an exponent marker.
IsExponential(bytes) == \E i \in 1..Len(bytes) : bytes[i] = "e"

\* C20: encoding a Double writes exponential notation exactly when its
\* absolute value is >= 1e8 or < 1e-8 and fixed decimal otherwise, with a
\* single '+' before every non-negative value and a single '-' before every
\* negative value.
C20_DoubleNotation ==
    (mode = "codec" /\ sent.tag = "Double") =>
        /\ IsExponential(enc) <=>
              (AbsAtLeast1e8(sent.n, sent.e) \/ AbsLessThan1em8(sent.n, sent.e))
        /\ enc[2] = (IF sent.n < 0 THEN "-" ELSE "+")
        /\ enc[3] \notin {"+", "-"}

-----------------------------------------------------------------------------
(* Claims about the connection loop                                        *)

RECURSIVE RunFrom(_, _)
\* The Commands and responses of executing the requests one after the other,
\* starting from store b.
RunFrom(b, frames) ==
    IF Len(frames) = 0 THEN << >>
    ELSE LET c == Command_try_from(Head(frames), CHOOSE nk \in NullKeyOutcomes : TRUE).cmd
             x == Command_execute(b, c, CHOOSE ord \in FieldOrders : TRUE)
         IN  <<[cmd |-> c, resp |-> x.resp]>> \o RunFrom(x.backend, Tail(frames))

\* How many of the requests have arrived whole.
CompleteArrived ==
    Cardinality({i \in 1..Len(requests) :
                    Len(BytesOfAll(SubSeq(requests, 1, i))) <= arrived})

\* The loop has handed out every frame it can and waits for bytes, or has ended.
Settled == loop \in {"read", "faulted"}

PipelineInOrder ==
    mode = "conn" =>
        /\ Len(written) = Len(executed)
        /\ Len(executed) <= Len(requests)
        /\ \A i \in 1..Len(executed) :
              /\ executed[i] = RunFrom(BackInner_new, requests)[i].cmd
              /\ written[i] = RunFrom(BackInner_new, requests)[i].resp
        /\ Settled => Len(executed) >= CompleteArrived

NotCompleteRetries ==
    (mode = "conn" /\ loop = "decode" /\ last'.kind = "NotComplete") =>
        /\ executed' = executed
        /\ written' = written
        /\ store' = store

\* C21: on a connection, every complete request frame that has arrived is
\* turned into a Command, executed exactly once and answered by exactly one
\* response, the responses are written in the order the requests arrived, and
\* a decode attempt that returns NotComplete leads to no command construction
\* or execution.
C21_Pipeline == [](PipelineInOrder) /\ [][NotCompleteRetries]_vars

-----------------------------------------------------------------------------
(* Claims about the conversion of hmget                                    *)

\* The length of the longest run of BulkStrings at the front of args.
LongestRun(args) ==
    CHOOSE n \in 0..Len(args) :
        /\ \A i \in 1..n : IsBulkString(args[i])
        /\ n = Len(args) \/ ~IsBulkString(args[n + 1])

-----------------------------------------------------------------------------
(* Claims about what a command changes in the store                        *)

ReadOnlyNames == {"get", "hget", "hgetall", "hmget", "echo", "unrecognized"}

\* Task c takes a step of its command.
Steps(c) == pc[c] = "run" /\ (pc'[c] # pc[c] \/ ret'[c] # ret[c])

\* C23: executing Get, HGet, HGetAll, HMGet, Echo or Unrecognized leaves both
\* Backend namespaces unchanged: no key or field is created, removed or
\* altered, also when the key or field asked for is absent.
C23_ReadsKeepStore ==
    [][mode = "server" =>
          \A c \in Conns :
              (Steps(c) /\ cmd[c].name \in ReadOnlyNames) => arcs' = arcs]_vars

C23_Witness ==
    /\ mode = "server"
    /\ \E c \in Conns :
        /\ Done(c, "hgetall")
        /\ cmd[c].key \notin DOMAIN arcs[MainBackend].hmap
        /\ DOMAIN arcs[MainBackend].hmap # {}
        /\ DOMAIN arcs[MainBackend].map # {}
        /\ resp[c] = RespArray(<< >>)

\* m2 is m1 with x mapped to v and nothing else changed.
OnlyChanged(m1, m2, x, v) ==
    /\ DOMAIN m2 = DOMAIN m1 \cup {x}
    /\ m2[x] = v
    /\ \A y \in DOMAIN m1 \ {x} : m2[y] = m1[y]

\* C24: Set{key, v} changes only map[key] and HSet{key, field, v} changes only
\* hmap[key][field]: every other key, every other field of the same key and
\* the whole other namespace stay as they were, so one key can hold a flat
\* value and a hash at once and neither write affects the other.
C24_WritesChangeOneEntry ==
    [][mode = "server" =>
          \A c \in Conns :
              LET b1 == arcs[handle[c]]
                  b2 == arcs'[handle[c]]
                  k == cmd[c].key
              IN  /\ (Steps(c) /\ cmd[c].name = "set") =>
                        /\ OnlyChanged(b1.map, b2.map, k, cmd[c].value)
                        /\ b2.hmap = b1.hmap
                  /\ (Steps(c) /\ cmd[c].name = "hset") =>
                        /\ b2.map = b1.map
                        /\ DOMAIN b2.hmap = DOMAIN b1.hmap \cup {k}
                        /\ \A j \in DOMAIN b1.hmap \ {k} : b2.hmap[j] = b1.hmap[j]
                        /\ OnlyChanged(IF k \in DOMAIN b1.hmap THEN b1.hmap[k] ELSE EmptyMap,
                                       b2.hmap[k], cmd[c].field, cmd[c].value)]_vars

C24_Witness ==
    /\ mode = "server"
    /\ \E c \in Conns :
        /\ Done(c, "hset")
        /\ cmd[c].key \in DOMAIN arcs[MainBackend].map
        /\ arcs[MainBackend].map[cmd[c].key] = lastSet[cmd[c].key]
        /\ arcs[MainBackend].map[cmd[c].key] # cmd[c].value
        /\ DOMAIN arcs[MainBackend].hmap[cmd[c].key] = Fields
        /\ arcs[MainBackend].hmap[cmd[c].key][cmd[c].field] = cmd[c].value

-----------------------------------------------------------------------------
(* Claims about what a decode removes from the buffer                      *)

\* The request the loop has not served yet lies whole at the front of the
\* read buffer, with further bytes behind it.
NextRequestWhole ==
    /\ Len(executed) < Len(requests)
    /\ StartsWith(buffer, Bytes(requests[Len(executed) + 1]))
    /\ Len(buffer) > Len(Bytes(requests[Len(executed) + 1]))

\* C25: when the buffer starts with a complete frame followed by further
\* bytes, a successful decode removes from the front exactly the bytes of
\* that frame (the length of its encoding) and leaves the following bytes
\* untouched, so frames sent back to back decode one after another; the
\* empty BulkString "$0\r\n\r\n" included, under both decode strategies.
C25_ConsumesExactly ==
    [][(mode = "conn" /\ loop = "decode" /\ NextRequestWhole) =>
          /\ last'.kind = "Ok"
          /\ last'.frame = requests[Len(executed) + 1]
          /\ buffer' = Drop(buffer, Len(Bytes(requests[Len(executed) + 1])))]_vars

\* An Array or Set that declares one element and holds only the first byte of
\* a BulkString, Boolean or Null.
TruncatedContainers ==
    {<<p, "1", CR, LF, x>> : p \in {"*", "~"}, x \in {"$", "#", "_"}}

\* C26: the length probe never reads or slices past the end of the buffer:
\* for a buffer that holds a truncated Array or Set whose nested element
\* (BulkString, Boolean, Null) is cut short, expect_length and decode return
\* NotComplete; nothing crashes on an out-of-range index.
C26_ProbeStaysInBuffer ==
    (mode = "raw" /\ in1 \in TruncatedContainers) =>
        /\ RespFrame_expect_length(in1).kind = "NotComplete"
        /\ out1.kind = "NotComplete"
        /\ out2.kind = "NotComplete"

-----------------------------------------------------------------------------
(* Claims about concurrent writers of one hash                             *)

\* Tasks c and d have both finished an HSet on one key and different fields,
\* and the two HSets were executing at the same time.
ConcurrentHSets(c, d) ==
    /\ c # d
    /\ Done(c, "hset") /\ Done(d, "hset")
    /\ d \in overlap[c]
    /\ cmd[c].key = cmd[d].key
    /\ cmd[c].field # cmd[d].field

\* C27: under any interleaving, two concurrent HSets that write different
\* fields of one key, a key with no hash yet included, both take effect: after
\* both complete the hash holds both fields with the values written.
C27_ConcurrentHSets ==
    mode = "server" =>
        \A c, d \in Conns :
            ConcurrentHSets(c, d) =>
                /\ Backend_hget(arcs[MainBackend], cmd[c].key, cmd[c].field) = Some(cmd[c].value)
                /\ Backend_hget(arcs[MainBackend], cmd[d].key, cmd[d].field) = Some(cmd[d].value)

\* C27 witness: the two HSets are the only commands ever started, so the key
\* had no hash when they began.
C27_Witness ==
    /\ mode = "server"
    /\ issued = 2
    /\ \E c, d \in Conns :
        /\ ConcurrentHSets(c, d)
        /\ DOMAIN arcs[MainBackend].hmap[cmd[c].key] = {cmd[c].field, cmd[d].field}

-----------------------------------------------------------------------------
(* Claims about the totality of conversion and execution                   *)

\* C28: Frame-to-Command conversion followed by execution is total: for every
\* Frame it returns a Command (and then a response Frame) or a CommandError
\* and never crashes, also for Arrays whose command name or key or message
\* argument is the null BulkString.
C28_ConversionTotal ==
    Converted =>
        /\ conv.kind # "Panic"
        /\ conv.kind = "Ok" => conv.cmd # NoCommand
        /\ conv.kind # "Ok" => reply = NoFrame

====
